---- MODULE Spec2Model ----
(***************************************************************************)
(* A model of pdf_metadata (src/src/lib.rs, src/src/main.rs): the value    *)
(* codec that turns the bytes of an Info-dictionary entry into text, the   *)
(* Put/List operations on the Info dictionary, and the write-to-temporary- *)
(* then-rename protocol of update_metadata_in_place.                       *)
(*                                                                         *)
(* Bytes are sequences over 0..255.  A Rust String is the sequence of its  *)
(* Unicode scalar values.  A Result is a record with a field ok.           *)
(***************************************************************************)
EXTENDS Integers, Sequences, FiniteSets, TLC

(***************************************************************************)
(* Bounds of the model.                                                    *)
(***************************************************************************)
\* the longest body of a text typed in the codec specification
MaxLen == 4
\* the number of write calls one save of a document takes
SaveChunks == 2
\* how many times update_metadata_in_place is invoked
MaxCalls == 2
\* the longest run of bytes of a stored value, after its mark or tag
MaxBytes == 4
MaxPuts == 3
MaxSelection == 3
MaxWide == 4

(***************************************************************************)
(* Generic helpers.                                                        *)
(***************************************************************************)
Ok(v) == [ok |-> TRUE, val |-> v]
Err(e) == [ok |-> FALSE, err |-> e]

Drop(s, n) == IF n >= Len(s) THEN <<>> ELSE SubSeq(s, n + 1, Len(s))
Take(s, n) == IF n >= Len(s) THEN s ELSE SubSeq(s, 1, n)

StartsWith(s, p) == Len(s) >= Len(p) /\ SubSeq(s, 1, Len(p)) = p

ReplacementChar == 65533

(***************************************************************************)
(* UTF-8 (the Rust standard library, as the repository uses it).           *)
(***************************************************************************)
\* str::as_bytes of one scalar value
Utf8Encode(c) ==
    IF c < 128 THEN <<c>>
    ELSE IF c < 2048 THEN <<192 + (c \div 64), 128 + (c % 64)>>
    ELSE IF c < 65536 THEN
        <<224 + (c \div 4096), 128 + ((c \div 64) % 64), 128 + (c % 64)>>
    ELSE <<240 + (c \div 262144), 128 + ((c \div 4096) % 64),
           128 + ((c \div 64) % 64), 128 + (c % 64)>>

RECURSIVE Utf8Bytes(_)
Utf8Bytes(s) ==
    IF s = <<>> THEN <<>> ELSE Utf8Encode(Head(s)) \o Utf8Bytes(Tail(s))

\* str::len: the length in bytes
StrLen(s) == Len(Utf8Bytes(s))

IsCont(b) == b >= 128 /\ b <= 191

\* the byte at 1-based position i, 0 past the end (safe_get)
ByteAt(bs, i) == IF i <= Len(bs) THEN bs[i] ELSE 0

\* One step of the lossy decoder on a non-empty byte string: the scalar
\* value produced and the number of bytes consumed.  An invalid sequence
\* yields U+FFFD for its maximal invalid prefix.
Utf8Step(bs) ==
    LET b0 == bs[1]
        b1 == ByteAt(bs, 2)
        b2 == ByteAt(bs, 3)
        b3 == ByteAt(bs, 4)
        bad(n) == [cp |-> ReplacementChar, n |-> n]
    IN  IF b0 < 128 THEN [cp |-> b0, n |-> 1]
        ELSE IF b0 >= 194 /\ b0 <= 223 THEN
            IF IsCont(b1) THEN [cp |-> (b0 - 192) * 64 + (b1 - 128), n |-> 2]
            ELSE bad(1)
        ELSE IF b0 >= 224 /\ b0 <= 239 THEN
            IF ~ (\/ (b0 = 224 /\ b1 >= 160 /\ b1 <= 191)
                  \/ (b0 >= 225 /\ b0 <= 236 /\ IsCont(b1))
                  \/ (b0 = 237 /\ b1 >= 128 /\ b1 <= 159)
                  \/ (b0 >= 238 /\ IsCont(b1)))
            THEN bad(1)
            ELSE IF ~ IsCont(b2) THEN bad(2)
            ELSE [cp |-> (b0 - 224) * 4096 + (b1 - 128) * 64 + (b2 - 128),
                  n |-> 3]
        ELSE IF b0 >= 240 /\ b0 <= 244 THEN
            IF ~ (\/ (b0 = 240 /\ b1 >= 144 /\ b1 <= 191)
                  \/ (b0 >= 241 /\ b0 <= 243 /\ IsCont(b1))
                  \/ (b0 = 244 /\ b1 >= 128 /\ b1 <= 143))
            THEN bad(1)
            ELSE IF ~ IsCont(b2) THEN bad(2)
            ELSE IF ~ IsCont(b3) THEN bad(3)
            ELSE [cp |-> (b0 - 240) * 262144 + (b1 - 128) * 4096
                          + (b2 - 128) * 64 + (b3 - 128),
                  n |-> 4]
        ELSE bad(1)

\* String::from_utf8_lossy
RECURSIVE FromUtf8Lossy(_)
FromUtf8Lossy(bs) ==
    IF bs = <<>> THEN <<>>
    ELSE LET st == Utf8Step(bs)
         IN  <<st.cp>> \o FromUtf8Lossy(Drop(bs, st.n))

(***************************************************************************)
(* UTF-16 (String::from_utf16 over big- or little-endian code units).      *)
(***************************************************************************)
IsHighSurrogate(u) == u >= 55296 /\ u <= 56319
IsLowSurrogate(u) == u >= 56320 /\ u <= 57343

\* String::from_utf16: Err on an unpaired surrogate
RECURSIVE FromUtf16(_)
FromUtf16(us) ==
    IF us = <<>> THEN Ok(<<>>)
    ELSE LET u == Head(us)
         IN  IF IsHighSurrogate(u) THEN
                 IF Len(us) >= 2 /\ IsLowSurrogate(us[2]) THEN
                     LET rest == FromUtf16(Drop(us, 2))
                         c == 65536 + (u - 55296) * 1024 + (us[2] - 56320)
                     IN  IF rest.ok THEN Ok(<<c>> \o rest.val) ELSE rest
                 ELSE Err("utf16")
             ELSE IF IsLowSurrogate(u) THEN Err("utf16")
             ELSE LET rest == FromUtf16(Tail(us))
                  IN  IF rest.ok THEN Ok(<<u>> \o rest.val) ELSE rest

\* code units read low byte first, for comparison with UnitsBE
UnitsLowFirst(bs) == [i \in 1..(Len(bs) \div 2) |-> bs[2 * i] * 256 + bs[2 * i - 1]]

\* chunks_exact(2).map(u16::from_be_bytes) on an even-length byte string
UnitsBE(bs) == [i \in 1..(Len(bs) \div 2) |-> bs[2 * i - 1] * 256 + bs[2 * i]]
\* chunks_exact(2).map(u16::from_le_bytes)
UnitsLE(bs) == [i \in 1..(Len(bs) \div 2) |-> bs[2 * i] * 256 + bs[2 * i - 1]]

HasBomBE(bs) == Len(bs) >= 2 /\ bs[1] = 254 /\ bs[2] = 255
HasBomLE(bs) == Len(bs) >= 2 /\ bs[1] = 255 /\ bs[2] = 254

\* The byte-order-mark stage: Ok(text) when it commits, Err when it falls
\* through.
BomStageBE(bs) ==
    IF HasBomBE(bs) /\ (Len(bs) - 2) % 2 = 0
    THEN FromUtf16(UnitsBE(Drop(bs, 2)))
    ELSE Err("fallthrough")

BomStageLE(bs) ==
    IF HasBomLE(bs) /\ (Len(bs) - 2) % 2 = 0
    THEN FromUtf16(UnitsLE(Drop(bs, 2)))
    ELSE Err("fallthrough")

decode_pdf_string(bs) ==
    IF BomStageBE(bs).ok THEN BomStageBE(bs).val
    ELSE IF BomStageLE(bs).ok THEN BomStageLE(bs).val
    ELSE FromUtf8Lossy(bs)

(***************************************************************************)
(* base64_to_bytes and hex_to_bytes.                                       *)
(***************************************************************************)
\* the position of a character in the alphabet A-Z a-z 0-9 + /, or -1
Base64Pos(c) ==
    IF c >= 65 /\ c <= 90 THEN c - 65
    ELSE IF c >= 97 /\ c <= 122 THEN c - 97 + 26
    ELSE IF c >= 48 /\ c <= 57 THEN c - 48 + 52
    ELSE IF c = 43 THEN 62
    ELSE IF c = 47 THEN 63
    ELSE -1

PadChar == 61

RECURSIVE Base64Clean(_)
Base64Clean(s) ==
    IF s = <<>> THEN <<>>
    ELSE IF Base64Pos(Head(s)) >= 0 \/ Head(s) = PadChar
         THEN <<Head(s)>> \o Base64Clean(Tail(s))
         ELSE Base64Clean(Tail(s))

\* values[i] of one chunk: the loop stops at the first '='
Base64Value(chunk, i) ==
    IF i > Len(chunk) \/ (\E j \in 1..i : chunk[j] = PadChar) THEN 0
    ELSE Base64Pos(chunk[i])

\* a chunk decoder that ignores the padding and always pushes three bytes,
\* for comparison with Base64Chunk
Base64ChunkFull(chunk) ==
    LET v0 == Base64Value(chunk, 1)
        v1 == Base64Value(chunk, 2)
        v2 == Base64Value(chunk, 3)
        v3 == Base64Value(chunk, 4)
    IN  <<((v0 * 4) % 256) + (v1 \div 16), ((v1 * 16) % 256) + (v2 \div 4),
          ((v2 * 64) % 256) + v3>>

\* the bytes one chunk of two to four characters pushes
Base64Chunk(chunk) ==
    LET v0 == Base64Value(chunk, 1)
        v1 == Base64Value(chunk, 2)
        v2 == Base64Value(chunk, 3)
        v3 == Base64Value(chunk, 4)
    IN  <<((v0 * 4) % 256) + (v1 \div 16)>>
        \o (IF Len(chunk) > 2 /\ chunk[3] # PadChar
            THEN <<((v1 * 16) % 256) + (v2 \div 4)>> ELSE <<>>)
        \o (IF Len(chunk) > 3 /\ chunk[4] # PadChar
            THEN <<((v2 * 64) % 256) + v3>> ELSE <<>>)

RECURSIVE Base64Chunks(_)
Base64Chunks(clean) ==
    IF Len(clean) < 2 THEN <<>>
    ELSE Base64Chunk(Take(clean, 4)) \o Base64Chunks(Drop(clean, 4))

\* Every character that survives the filter is in the alphabet or is '=',
\* so the lookup inside the loop always succeeds.
base64_to_bytes(s) == Ok(Base64Chunks(Base64Clean(s)))

HexDigit(c) ==
    IF c >= 48 /\ c <= 57 THEN c - 48
    ELSE IF c >= 97 /\ c <= 102 THEN c - 97 + 10
    ELSE IF c >= 65 /\ c <= 70 THEN c - 65 + 10
    ELSE -1

\* u8::from_str_radix(&format!("{}{}", c1, c2), 16): a leading '+' is a sign
HexPair(c1, c2) ==
    IF c1 = 43 THEN
        IF HexDigit(c2) >= 0 THEN Ok(HexDigit(c2)) ELSE Err("hex")
    ELSE IF HexDigit(c1) >= 0 /\ HexDigit(c2) >= 0
         THEN Ok(16 * HexDigit(c1) + HexDigit(c2))
         ELSE Err("hex")

\* the loop over chunks(2) of the characters; a last chunk of one character
\* is skipped
RECURSIVE HexChunks(_)
HexChunks(s) ==
    IF Len(s) < 2 THEN Ok(<<>>)
    ELSE LET b == HexPair(s[1], s[2])
             rest == HexChunks(Drop(s, 2))
         IN  IF ~ b.ok THEN b
             ELSE IF ~ rest.ok THEN rest
             ELSE Ok(<<b.val>> \o rest.val)

hex_to_bytes(s) ==
    IF StrLen(s) % 2 # 0 THEN Err("Hex string must have even length")
    ELSE HexChunks(s)

(***************************************************************************)
(* info_value_to_string.  An Object is a record with a field type; a       *)
(* String or Name carries bytes, an Integer or Boolean carries val.        *)
(***************************************************************************)
\* "UTF16BE:"
TagUTF16BE == <<85, 84, 70, 49, 54, 66, 69, 58>>
LtChar == 60
GtChar == 62

StringObject(bs) == [type |-> "String", bytes |-> bs]

\* Object::string_literal(text): the UTF-8 bytes of the text, as they are
string_literal(text) == StringObject(Utf8Bytes(text))

\* the tag stage (lib.rs 165-174): Ok(text) when it returns
TagStage(vec_bytes) ==
    LET bytes_as_string == FromUtf8Lossy(vec_bytes)
    IN  IF StartsWith(bytes_as_string, TagUTF16BE) THEN
            LET decoded == base64_to_bytes(Drop(bytes_as_string, 8))
            IN  IF decoded.ok THEN Ok(decode_pdf_string(decoded.val))
                ELSE Ok(bytes_as_string)
        ELSE Err("fallthrough")

\* a wrapper test that looks at the first character only, for comparison
\* with HexWrapped
HexWrappedStartOnly(text) == Len(text) >= 1 /\ text[1] = LtChar

\* starts_with('<') && ends_with('>') (lib.rs 177)
HexWrapped(text) ==
    /\ Len(text) >= 1
    /\ text[1] = LtChar
    /\ text[Len(text)] = GtChar

\* the hex-wrapper stage on the text (lib.rs 176-183)
HexStage(vec_bytes) ==
    LET bytes_as_string == FromUtf8Lossy(vec_bytes)
    IN  IF HexWrapped(bytes_as_string)
        THEN LET hex == hex_to_bytes(
                            SubSeq(bytes_as_string, 2, Len(bytes_as_string) - 1))
             IN  IF hex.ok THEN Ok(decode_pdf_string(hex.val))
                 ELSE Err("fallthrough")
        ELSE Err("fallthrough")

\* the test of the raw bytes (lib.rs 186)
RawHexWrapped(vec_bytes) ==
    /\ Len(vec_bytes) > 4
    /\ vec_bytes[1] = LtChar
    /\ vec_bytes[Len(vec_bytes)] = GtChar

\* the hex-wrapper stage on the raw bytes (lib.rs 185-191)
RawHexStage(vec_bytes) ==
    IF RawHexWrapped(vec_bytes)
    THEN LET hex == hex_to_bytes(
                        FromUtf8Lossy(SubSeq(vec_bytes, 2, Len(vec_bytes) - 1)))
         IN  IF hex.ok THEN Ok(decode_pdf_string(hex.val))
             ELSE Err("fallthrough")
    ELSE Err("fallthrough")

\* The String arm: tag, hex wrapper, raw hex wrapper, BE mark, LE mark,
\* then the bytes as UTF-8 (Object::as_str of a String is its bytes).
DecodeStringBytes(vec_bytes) ==
    IF TagStage(vec_bytes).ok THEN TagStage(vec_bytes).val
    ELSE IF HexStage(vec_bytes).ok THEN HexStage(vec_bytes).val
    ELSE IF RawHexStage(vec_bytes).ok THEN RawHexStage(vec_bytes).val
    ELSE IF BomStageBE(vec_bytes).ok THEN BomStageBE(vec_bytes).val
    ELSE IF BomStageLE(vec_bytes).ok THEN BomStageLE(vec_bytes).val
    ELSE FromUtf8Lossy(vec_bytes)

\* i64::to_string of a non-negative number
RECURSIVE DecimalDigits(_)
DecimalDigits(n) ==
    IF n < 10 THEN <<48 + n>> ELSE DecimalDigits(n \div 10) \o <<48 + (n % 10)>>

\* Object::Real of a number written with at most two decimals: its sign
\* (minus zero has one) and its magnitude in hundredths.  The value held is
\* the f32 nearest to it (24 bits, ties to the even mantissa).
RealObject(neg, hundredths) == [type |-> "Real", neg |-> neg, val |-> hundredths]

\* n / unit rounded to the nearest whole number, ties to the even one
RoundHalfEven(n, unit) ==
    LET q == n \div unit
        r == n % unit
    IN  IF 2 * r > unit \/ (2 * r = unit /\ q % 2 = 1) THEN q + 1 ELSE q

\* the shortest decimal text that reads back as the f32 mant / 2^k, whose
\* neighbours are 1 / 2^k away (k in 0..6): decimals are added until the
\* text cut there, or the next one up, is within half that distance (the
\* half included when mant is even), and of the two the nearer is taken,
\* the upper one on a tie
ShortestText(mant, k) ==
    LET scale == <<1, 2, 4, 8, 16, 32, 64>>[k + 1]
        Pow10(d) == <<1, 10, 100, 1000, 10000, 100000, 1000000>>[d + 1]
        whole == mant \div scale
        rest == mant % scale
        even == mant % 2 = 0
        rem(d) == (rest * Pow10(d)) % scale
        down(d) == IF even THEN 2 * rem(d) <= Pow10(d) ELSE 2 * rem(d) < Pow10(d)
        up(d) == IF even THEN 2 * (scale - rem(d)) <= Pow10(d)
                 ELSE 2 * (scale - rem(d)) < Pow10(d)
        n == CHOOSE d \in 0..k :
                 /\ down(d) \/ up(d)
                 /\ \A c \in 0..(d - 1) : ~ (down(c) \/ up(c))
        cut == (rest * Pow10(n)) \div scale
        last == IF up(n) /\ (~ down(n) \/ 2 * rem(n) >= scale)
                THEN cut + 1 ELSE cut
        carry == IF last = Pow10(n) THEN 1 ELSE 0
        decimals == last - carry * Pow10(n)
    IN  DecimalDigits(whole + carry)
        \o (IF n = 0 THEN <<>>
            ELSE <<46>> \o [i \in 1..n |->
                               48 + ((decimals \div Pow10(n - i)) % 10)])

\* f32::to_string of such a number: the sign, then the shortest decimal
\* text that reads back as the same f32.  Below 2^17 neighbouring values
\* are less than a hundredth apart and the text is the number as written,
\* without the decimals that are zero (1.0 prints as "1", 2.50 as "2.5",
\* -0.0 as "-0"); from 2^17 on they are 1/64 to 1 apart (131072.01 prints
\* as "131072.02"), and from 2^24 on 2 apart (16777217 prints as
\* "16777216")
RealToString(neg, hundredths) ==
    LET whole == hundredths \div 100
        tenths == (hundredths % 100) \div 10
        units == hundredths % 10
        Pow2(j) == <<1, 2, 4, 8, 16, 32, 64>>[j + 1]
        \* 2^(23 - k) <= the number < 2^(24 - k)
        k == CHOOSE j \in 0..6 :
                 /\ 838860800 \div Pow2(j) <= hundredths
                 /\ (j = 0 \/ hundredths < 838860800 \div Pow2(j - 1))
    IN  (IF neg THEN <<45>> ELSE <<>>)
        \o (IF hundredths < 13107200 THEN
                DecimalDigits(whole)
                \o (IF tenths = 0 /\ units = 0 THEN <<>>
                    ELSE IF units = 0 THEN <<46, 48 + tenths>>
                    ELSE <<46, 48 + tenths, 48 + units>>)
            ELSE IF hundredths >= 1677721600 THEN
                DecimalDigits(2 * RoundHalfEven(hundredths, 200))
            ELSE ShortestText(
                     RoundHalfEven(hundredths * Pow2(k), 100), k))

\* "true", "false", "null"
TrueText == <<116, 114, 117, 101>>
FalseText == <<102, 97, 108, 115, 101>>
NullText == <<110, 117, 108, 108>>

\* "Type", "Linearized", "<Desconhecido>"
TypeEntry == <<84, 121, 112, 101>>
LinearizedEntry == <<76, 105, 110, 101, 97, 114, 105, 122, 101, 100>>
UnknownTypeText == <<60, 68, 101, 115, 99, 111, 110, 104, 101, 99, 105, 100, 111, 62>>

\* Dictionary::get_type: the Name under Type, else "Linearized" when the
\* dictionary has that key
get_type(entries) ==
    LET named == {i \in 1..Len(entries) :
                     /\ entries[i].key = TypeEntry
                     /\ entries[i].value.type = "Name"}
    IN  IF named # {} THEN Ok(entries[CHOOSE i \in named : TRUE].value.bytes)
        ELSE IF \E i \in 1..Len(entries) : entries[i].key = LinearizedEntry
             THEN Ok(LinearizedEntry)
        ELSE Err("type")

\* Object::type_name: a Dictionary's or a Stream's Type, an error for every
\* other variant
type_name(object) ==
    IF object.type = "Dictionary" THEN get_type(object.entries)
    ELSE IF object.type = "Stream" THEN get_type(object.dict.entries)
    ELSE Err("type")

info_value_to_string(object) ==
    IF object.type = "String" THEN DecodeStringBytes(object.bytes)
    ELSE IF object.type = "Name" THEN FromUtf8Lossy(object.bytes)
    ELSE IF object.type = "Integer" THEN
        IF object.val < 0 THEN <<45>> \o DecimalDigits(-object.val)
        ELSE DecimalDigits(object.val)
    ELSE IF object.type = "Real" THEN RealToString(object.neg, object.val)
    ELSE IF object.type = "Boolean" THEN
        IF object.val THEN TrueText ELSE FalseText
    ELSE IF object.type = "Null" THEN NullText
    \* every other type: "<Tipo " type_name " não processado>"
    ELSE <<60, 84, 105, 112, 111, 32>>
         \o FromUtf8Lossy(IF type_name(object).ok THEN type_name(object).val
                          ELSE UnknownTypeText)
         \o <<32, 110, 227, 111, 32, 112, 114, 111, 99, 101, 115, 115, 97,
              100, 111, 62>>

\* &s[from..to] of a string or slice of length len panics unless
\* from <= to <= len
SliceOk(len, from, to) == from <= to /\ to <= len

\* The String arm panics when a slice it takes is out of bounds: the slices
\* at lib.rs 167, 179, 187, 196 and 212, each taken only when the stages
\* before it fell through.
StringArmPanics(vec_bytes) ==
    LET bytes_as_string == FromUtf8Lossy(vec_bytes)
        n == StrLen(bytes_as_string)
    IN  IF StartsWith(bytes_as_string, TagUTF16BE) THEN ~ SliceOk(n, 8, n)
        ELSE IF HexWrapped(bytes_as_string) /\ ~ SliceOk(n, 1, n - 1) THEN TRUE
        ELSE IF HexStage(vec_bytes).ok THEN FALSE
        ELSE IF /\ RawHexWrapped(vec_bytes)
                /\ ~ SliceOk(Len(vec_bytes), 1, Len(vec_bytes) - 1) THEN TRUE
        ELSE IF RawHexStage(vec_bytes).ok THEN FALSE
        ELSE IF /\ HasBomBE(vec_bytes)
                /\ ~ SliceOk(Len(vec_bytes), 2, Len(vec_bytes)) THEN TRUE
        ELSE IF BomStageBE(vec_bytes).ok THEN FALSE
        ELSE /\ HasBomLE(vec_bytes)
             /\ ~ SliceOk(Len(vec_bytes), 2, Len(vec_bytes))

\* what a call of info_value_to_string leaves its caller with: the String
\* returned, or a panic
Panicked == <<-1>>

InfoValueOutcome(object) ==
    IF object.type = "String" /\ StringArmPanics(object.bytes) THEN Panicked
    ELSE info_value_to_string(object)

(***************************************************************************)
(* Documents.  A document is its trailer's Info entry, its objects (a      *)
(* function from object ids) and max_id.  A Dictionary's entries are a     *)
(* sequence of key/value pairs with pairwise distinct keys, in insertion   *)
(* order.                                                                  *)
(***************************************************************************)
Absent == [type |-> "Absent"]
Reference(id) == [type |-> "Reference", id |-> id]
DictionaryObject(entries) == [type |-> "Dictionary", entries |-> entries]
NameObject(bs) == [type |-> "Name", bytes |-> bs]

\* "ModDate", "Title", "Type", "Catalog"
ModDateKey == <<77, 111, 100, 68, 97, 116, 101>>
TitleKey == <<84, 105, 116, 108, 101>>
TypeKey == <<84, 121, 112, 101>>
CatalogName == <<67, 97, 116, 97, 108, 111, 103>>

HasKey(entries, key) == \E i \in 1..Len(entries) : entries[i].key = key

\* a set that keeps no other entry, for comparison with DictSet
DictSetAlone(entries, key, value) == <<[key |-> key, value |-> value]>>

\* Dictionary::set: the value of an existing key is replaced where it is, a
\* new key is appended
DictSet(entries, key, value) ==
    IF HasKey(entries, key)
    THEN [i \in 1..Len(entries) |->
             IF entries[i].key = key THEN [key |-> key, value |-> value]
             ELSE entries[i]]
    ELSE Append(entries, [key |-> key, value |-> value])

\* Dictionary::get
DictGet(entries, key) ==
    IF HasKey(entries, key)
    THEN Ok((CHOOSE i \in 1..Len(entries) : entries[i].key = key))
    ELSE Err("missing")

\* "Pages", "Count", "Kids"
PagesName == <<80, 97, 103, 101, 115>>
CountKey == <<67, 111, 117, 110, 116>>
KidsKey == <<75, 105, 100, 115>>

\* the objects create_minimal_test_pdf adds: the page tree, then the catalog
MinimalObjects ==
    (1 :> DictionaryObject(
              <<[key |-> TypeKey, value |-> NameObject(PagesName)],
                [key |-> CountKey, value |-> [type |-> "Integer", val |-> 0]],
                [key |-> KidsKey, value |-> [type |-> "Array", items |-> <<>>]]>>))
    @@ (2 :> DictionaryObject(
              <<[key |-> TypeKey, value |-> NameObject(CatalogName)],
                [key |-> PagesName, value |-> Reference(1)]>>))

\* the document create_minimal_test_pdf saves: no Info entry in the trailer
MinimalDoc ==
    [root |-> Reference(2), info |-> Absent, objects |-> MinimalObjects,
     max_id |-> 2]

\* "old"
OldText == <<111, 108, 100>>

\* a document whose Info dictionary already holds a Title
TitledDoc ==
    [root |-> Reference(2), info |-> Reference(3),
     objects |-> MinimalObjects
                 @@ (3 :> DictionaryObject(
                          <<[key |-> TitleKey, value |-> string_literal(OldText)]>>)),
     max_id |-> 3]

\* a document whose Title, "<41>", is stored as UTF-16BE after the mark, as
\* other writers of PDF store text
Utf16TitleDoc ==
    [root |-> Reference(2), info |-> Reference(3),
     objects |-> MinimalObjects
                 @@ (3 :> DictionaryObject(
                          <<[key |-> TitleKey,
                             value |-> StringObject(
                                 <<254, 255, 0, 60, 0, 52, 0, 49, 0, 62>>)]>>)),
     max_id |-> 3]

\* a document whose trailer names an Info object that does not exist
DanglingDoc ==
    [root |-> Reference(2), info |-> Reference(7), objects |-> MinimalObjects,
     max_id |-> 2]

\* a document whose trailer names an Info object that is an Integer
NonDictDoc ==
    [root |-> Reference(2), info |-> Reference(3),
     objects |-> MinimalObjects @@ (3 :> [type |-> "Integer", val |-> 0]),
     max_id |-> 3]

\* a document whose trailer holds the Info dictionary itself, not a
\* reference to it
InlineInfoDoc ==
    [root |-> Reference(2),
     info |-> DictionaryObject(
                  <<[key |-> TitleKey, value |-> string_literal(OldText)]>>),
     objects |-> MinimalObjects, max_id |-> 2]

\* a document whose Info dictionary holds a value of every kind beside
\* strings: integers, reals (1.5, -2.25, 0, 3.1, 131072.01, -16777217),
\* booleans, null, a name, an array, dictionaries with and without a Type, a
\* stream and a reference
KindsDoc ==
    [root |-> Reference(2), info |-> Reference(3),
     objects |->
        MinimalObjects
        @@ (3 :> DictionaryObject(
                <<[key |-> <<73>>, value |-> [type |-> "Integer", val |-> 42]],
                  [key |-> <<74>>, value |-> [type |-> "Integer", val |-> -7]],
                  [key |-> <<80>>, value |-> RealObject(FALSE, 150)],
                  [key |-> <<81>>, value |-> RealObject(TRUE, 225)],
                  [key |-> <<85>>, value |-> RealObject(FALSE, 0)],
                  [key |-> <<86>>, value |-> RealObject(FALSE, 310)],
                  [key |-> <<87>>, value |-> RealObject(FALSE, 13107201)],
                  [key |-> <<88>>, value |-> RealObject(TRUE, 1677721700)],
                  [key |-> <<84>>, value |-> [type |-> "Boolean", val |-> TRUE]],
                  [key |-> <<70>>, value |-> [type |-> "Boolean", val |-> FALSE]],
                  [key |-> <<90>>, value |-> [type |-> "Null"]],
                  [key |-> <<78>>, value |-> NameObject(<<70, 255>>)],
                  [key |-> <<65>>, value |-> [type |-> "Array", items |-> <<>>]],
                  [key |-> <<68>>, value |-> DictionaryObject(<<>>)],
                  [key |-> <<69>>,
                   value |-> DictionaryObject(
                       <<[key |-> TypeKey, value |-> NameObject(CatalogName)]>>)],
                  [key |-> <<83>>,
                   value |-> [type |-> "Stream", dict |-> DictionaryObject(<<>>),
                              content |-> <<>>]],
                  [key |-> <<82>>, value |-> Reference(1)]>>)),
     max_id |-> 3]

\* trailer.get(b"Info").and_then(as_reference)
InfoDictId(doc) ==
    IF doc.info.type = "Reference" THEN Ok(doc.info.id) ELSE Err("no Info reference")

(***************************************************************************)
(* The ModDate stamp.  A clock reading is the 14 digits chrono prints for  *)
(* "%Y%m%d%H%M%S" and the local offset from UTC in seconds.                *)
(***************************************************************************)
\* a division that rounds toward minus infinity, for comparison with TruncDiv
FloorDiv(a, b) == a \div b

\* i32 division truncates toward zero
TruncDiv(a, b) == IF a >= 0 THEN a \div b ELSE -((-a) \div b)
Abs(a) == IF a >= 0 THEN a ELSE -a

\* format!("{:02}", n) of a non-negative n
Fmt02(n) == IF n < 10 THEN <<48, 48 + n>> ELSE DecimalDigits(n)

\* "D:{}{}{:02}'{:02}'"
PdfDate(now) ==
    LET offset_hours == TruncDiv(now.offset, 3600)
        offset_minutes == (Abs(now.offset) % 3600) \div 60
        offset_sign == IF now.offset >= 0 THEN 43 ELSE 45
    IN  <<68, 58>> \o now.digits \o <<offset_sign>> \o Fmt02(Abs(offset_hours))
        \o <<39>> \o Fmt02(offset_minutes) \o <<39>>

(***************************************************************************)
(* Put and List on a loaded document.                                      *)
(***************************************************************************)
\* A Put that would set ModDate before the key, for comparison with Put.
PutStampFirst(doc, key, value, stamp) ==
    LET found == InfoDictId(doc)
        id == IF found.ok THEN found.val ELSE doc.max_id + 1
        d1 == IF found.ok THEN doc
              ELSE [doc EXCEPT !.info = Reference(id),
                               !.objects = doc.objects
                                           @@ (id :> DictionaryObject(<<>>)),
                               !.max_id = id]
    IN  IF id \notin DOMAIN d1.objects THEN Err("object not found")
        ELSE IF d1.objects[id].type # "Dictionary" THEN Err("not a dictionary")
        ELSE LET e1 == DictSet(d1.objects[id].entries, ModDateKey,
                               string_literal(stamp))
                 e2 == DictSet(e1, Utf8Bytes(key), string_literal(value))
             IN  Ok([d1 EXCEPT !.objects[id] = DictionaryObject(e2)])

\* The mutation set_metadata, update_metadata_in_place and set_pdf_metadata
\* share: locate or create the Info dictionary, set the key, then set
\* ModDate.
Put(doc, key, value, stamp) ==
    LET found == InfoDictId(doc)
        id == IF found.ok THEN found.val ELSE doc.max_id + 1
        d1 == IF found.ok THEN doc
              ELSE [doc EXCEPT !.info = Reference(id),
                               !.objects = doc.objects
                                           @@ (id :> DictionaryObject(<<>>)),
                               !.max_id = id]
    IN  IF id \notin DOMAIN d1.objects THEN Err("object not found")
        ELSE IF d1.objects[id].type # "Dictionary" THEN Err("not a dictionary")
        ELSE LET e1 == DictSet(d1.objects[id].entries, Utf8Bytes(key),
                               string_literal(value))
                 e2 == DictSet(e1, ModDateKey, string_literal(stamp))
             IN  Ok([d1 EXCEPT !.objects[id] = DictionaryObject(e2)])

\* the entries get_metadata pushes for a loaded document
List(doc) ==
    LET found == InfoDictId(doc)
    IN  IF /\ found.ok
           /\ found.val \in DOMAIN doc.objects
           /\ doc.objects[found.val].type = "Dictionary"
        THEN LET entries == doc.objects[found.val].entries
             IN  [i \in 1..Len(entries) |->
                     [key |-> FromUtf8Lossy(entries[i].key),
                      value |-> info_value_to_string(entries[i].value)]]
        ELSE <<>>

\* Dictionary::remove: the entry goes and the last entry takes its place
\* (IndexMap::swap_remove); nothing changes when the key is not there
DictRemove(entries, key) ==
    IF ~ HasKey(entries, key) THEN entries
    ELSE LET i == CHOOSE j \in 1..Len(entries) : entries[j].key = key
             n == Len(entries)
         IN  [j \in 1..(n - 1) |-> IF j = i THEN entries[n] ELSE entries[j]]

\* The mutation of remove_metadata_key: the Info dictionary must be there;
\* the key goes, then ModDate is set (main.rs 325-349).
Remove(doc, key, stamp) ==
    LET found == InfoDictId(doc)
    IN  IF ~ found.ok THEN Err("PDF não possui dicionário Info")
        ELSE IF found.val \notin DOMAIN doc.objects THEN Err("object not found")
        ELSE IF doc.objects[found.val].type # "Dictionary"
             THEN Err("not a dictionary")
        ELSE LET e1 == DictRemove(doc.objects[found.val].entries, Utf8Bytes(key))
                 e2 == DictSet(e1, ModDateKey, string_literal(stamp))
             IN  Ok([doc EXCEPT !.objects[found.val] = DictionaryObject(e2)])

(***************************************************************************)
(* The file system: a directory from names to inodes (0: no entry) and the *)
(* content of every inode.  A file's content is the sequence of chunks     *)
(* written so far; a saved document is SaveChunks chunks of one document.   *)
(***************************************************************************)
\* file_path_str, the path every invocation works on
Target == [stem |-> "doc", micros |-> 0, ext |-> "pdf"]

\* The instants at which an invocation can read the system clock.  At
\* instant t SystemTime::now() is t microseconds after the epoch, and two
\* invocations can read the clock within the same microsecond.
Instants == {1, 2}

\* a save made straight onto the target, for comparison with TempName
TempNameIsTarget(stem, timestamp) == Target

\* format!("{}_{}.pdf.tmp", original_filename_stem, timestamp), in the
\* target's directory
TempName(stem, timestamp) == [stem |-> stem, micros |-> timestamp, ext |-> "pdf.tmp"]

\* output_path of set_metadata, when it is not the input's path
OutputPath == [stem |-> "out", micros |-> 0, ext |-> "pdf"]

\* format!("temp_remove_{}_{}.pdf", file_stem, timestamp), in the target's
\* directory (main.rs 357-359)
RemoveTempName(stem, timestamp) ==
    [stem |-> "temp_remove_" \o stem, micros |-> timestamp, ext |-> "pdf"]

Names ==
    {Target, OutputPath}
        \cup {TempName(Target.stem, t) : t \in Instants}
        \cup {RemoveTempName(Target.stem, t) : t \in Instants}

Chunk(doc, i) == [doc |-> doc, i |-> i]

\* the bytes Document::save writes, as the chunks of its write calls
Serialize(doc) == [i \in 1..SaveChunks |-> Chunk(doc, i)]

\* a file that is not a PDF
Garbage == <<Chunk(MinimalDoc, 0)>>

\* Document::load on the bytes of a file: only a completely written
\* document parses
Parse(data) ==
    IF Len(data) = SaveChunks /\ data = Serialize(data[1].doc)
    THEN Ok(data[1].doc)
    ELSE Err("parse")

\* an existence test that always passes, for comparison with PathExists
PathExistsAlways(d, name) == TRUE

\* Path::exists
PathExists(d, name) == d[name] # 0

\* a link that keeps the source's name, for comparison with RenameEntry
RenameKeepsSource(d, from, to) == [d EXCEPT ![to] = d[from]]

\* a rename that leaves a destination that exists as it is, for comparison
\* with RenameEntry
RenameKeepsDestination(d, from, to) ==
    IF d[to] # 0 THEN [d EXCEPT ![from] = 0]
    ELSE [d EXCEPT ![to] = d[from], ![from] = 0]

\* fs::rename(from, to) when it succeeds: one atomic change of the directory
RenameEntry(d, from, to) == [d EXCEPT ![to] = d[from], ![from] = 0]

\* a cleanup that removes nothing, for comparison with RemoveFile
RemoveNothing(d, name, possible) == d

\* fs::remove_file(name): the directory after the call; the entry goes when
\* it exists and the file system lets it go
RemoveFile(d, name, possible) ==
    IF d[name] # 0 /\ possible THEN [d EXCEPT ![name] = 0] ELSE d

\* The file system frees an inode no name leads to: its content is gone.
Release(d, content) ==
    [i \in 1..Len(content) |->
        IF \E n \in Names : d[n] = i THEN content[i] ELSE <<>>]

\* the content a write of chunk c at offset n (counted in chunks) leaves
WriteAt(data, n, c) ==
    IF n < Len(data) THEN [data EXCEPT ![n + 1] = c]
    ELSE IF n = Len(data) THEN Append(data, c)
    ELSE data \o [i \in 1..(n - Len(data)) |-> Chunk(MinimalDoc, 0)] \o <<c>>

(***************************************************************************)
(* The inputs of the model.                                                *)
(***************************************************************************)
\* "v1", "v2", "<41>"
TextV1 == <<118, 49>>
TextV2 == <<118, 50>>
TextHex41 == <<60, 52, 49, 62>>

\* "Title", "ModDate", "Author"
TitleText == <<84, 105, 116, 108, 101>>
ModDateText == <<77, 111, 100, 68, 97, 116, 101>>
AuthorText == <<65, 117, 116, 104, 111, 114>>

\* what one process, calling again and again, asks for
PutKeys == {TitleText, ModDateText}
PutValues == {TextV1, TextHex41}

\* what each of two racing processes asks for
RaceArg(p) ==
    IF p = "u1" THEN [key |-> TitleText, value |-> TextV1]
    ELSE [key |-> AuthorText, value |-> TextV2]

\* Local::now() at an instant: 2024-01-01 00:00:00 at UTC, and one second
\* later at UTC-03:30
LocalNow(t) ==
    IF t = 1
    THEN [digits |-> <<50, 48, 50, 52, 48, 49, 48, 49, 48, 48, 48, 48, 48, 48>>,
          offset |-> 0]
    ELSE [digits |-> <<50, 48, 50, 52, 48, 49, 48, 49, 48, 48, 48, 48, 48, 49>>,
          offset |-> -12600]

Updaters == {"u1", "u2"}

NoArg == [key |-> <<>>, value |-> <<>>]
NoFile == [exists |-> FALSE, data |-> <<>>]
NoResult == Err("none")

VARIABLES
    dir,      \* the directory: name -> inode, 0 when there is no entry
    ino,      \* the content of each inode, by inode number
    pc,       \* where each invocation of update_metadata_in_place stands
    arg,      \* its metadata_key and metadata_value
    mem,      \* its doc, once loaded and mutated
    stamp,    \* its pdf_date_formatted
    tmp,      \* its temp_file_path
    fd,       \* the inode its save has open
    pos,      \* how many chunks its save has written
    res,      \* what its last invocation returned
    pre,      \* the target file as it was when the invocation began
    calls,    \* invocations begun so far
    hist,     \* the arguments of the invocations that renamed, in order
    seen,     \* how many renames had happened when each invocation loaded
    rd,       \* what the reader's last get_metadata returned
    cText,    \* codec: the text being typed
    cRaw,     \* codec: the Object the store step built from it
    cOut,     \* codec: what info_value_to_string returned
    cPc,      \* codec: typing, encoded, decoded
    buf,      \* buffer entry points: the bytes the caller holds
    last,     \* buffer entry points: the last call, its input and its result
    puts,     \* buffer entry points: the key and value of each Put that returned Ok
    paths,    \* set_metadata: its file_path and output_path
    preOut,   \* set_metadata: the file at output_path when the call began
    job,      \* command line: the operation chosen and its keys and value
    entry,    \* list_metadata: the value of the entry being printed
    shown,    \* list_metadata: its display_value, once made
    clock,    \* date: the reading of Local::now()
    date      \* date: the pdf_date_formatted made from it

fsVars == <<dir, ino>>
updVars == <<pc, arg, mem, stamp, tmp, fd, pos, res, pre, calls, hist, seen>>
codecVars == <<cText, cRaw, cOut, cPc>>
bufVars == <<buf, last, puts>>
dateVars == <<clock, date>>
setVars == <<paths, preOut>>
jobVars == <<job>>
listVars == <<entry, shown>>
cliVars == <<dateVars, setVars, jobVars, listVars>>
vars == <<dir, ino, pc, arg, mem, stamp, tmp, fd, pos, res, pre, calls, hist, seen,
          rd, cText, cRaw, cOut, cPc, buf, last, puts, cliVars>>

\* the file a name leads to
FileAt(d, content, name) ==
    IF d[name] = 0 THEN NoFile ELSE [exists |-> TRUE, data |-> content[d[name]]]

\* Document::load(path)
Load(d, content, name) ==
    IF d[name] = 0 THEN Err("No such file or directory")
    ELSE Parse(content[d[name]])

\* get_metadata(path)
get_metadata(d, content, name) ==
    LET doc == Load(d, content, name)
    IN  IF doc.ok THEN Ok(List(doc.val)) ELSE doc

(***************************************************************************)
(* update_metadata_in_place, one action per step another process or a      *)
(* crash can fall between.                                                 *)
(***************************************************************************)
Finish(p, result) ==
    /\ pc' = [pc EXCEPT ![p] = "done"]
    /\ res' = [res EXCEPT ![p] = result]
    /\ fd' = [fd EXCEPT ![p] = 0]
    /\ pos' = [pos EXCEPT ![p] = 0]

\* the call and the check that the original file exists (lib.rs 388-396)
Call(p, key, value) ==
    /\ pc[p] = "idle"
    /\ calls < MaxCalls
    /\ calls' = calls + 1
    /\ arg' = [arg EXCEPT ![p] = [key |-> key, value |-> value]]
    /\ pre' = [pre EXCEPT ![p] = FileAt(dir, ino, Target)]
    /\ IF PathExists(dir, Target)
       THEN /\ pc' = [pc EXCEPT ![p] = "load"]
            /\ UNCHANGED <<res, fd, pos>>
       ELSE Finish(p, Err("Original file not found"))
    /\ UNCHANGED <<dir, ino, mem, stamp, tmp, hist, rd>>
    /\ UNCHANGED seen
    /\ UNCHANGED codecVars
    /\ UNCHANGED bufVars
    /\ UNCHANGED cliVars

\* Document::load, the mutation of the Info dictionary, and the temporary
\* file's name, with the clock read at instant t (lib.rs 398-447)
LoadAndPut(p, t) ==
    /\ pc[p] = "load"
    /\ LET loaded == Load(dir, ino, Target)
           put == Put(loaded.val, arg[p].key, arg[p].value, PdfDate(LocalNow(t)))
       IN  IF ~ loaded.ok THEN
               /\ Finish(p, Err("load"))
               /\ UNCHANGED <<mem, stamp, tmp>>
           ELSE IF ~ put.ok THEN
               /\ Finish(p, Err("info"))
               /\ UNCHANGED <<mem, stamp, tmp>>
           ELSE
               /\ mem' = [mem EXCEPT ![p] = put.val]
               /\ stamp' = [stamp EXCEPT ![p] = PdfDate(LocalNow(t))]
               /\ tmp' = [tmp EXCEPT ![p] = TempName(Target.stem, t)]
               /\ pc' = [pc EXCEPT ![p] = "create"]
               /\ UNCHANGED <<res, fd, pos>>
    /\ seen' = [seen EXCEPT ![p] = Len(hist)]
    /\ UNCHANGED <<dir, ino, arg, pre, calls, hist, rd>>
    /\ UNCHANGED codecVars
    /\ UNCHANGED bufVars
    /\ UNCHANGED cliVars

\* an inode no name leads to and no save has open, or a new one
FreeInode ==
    LET free == {i \in 1..Len(ino) :
                    /\ \A n \in Names : dir[n] # i
                    /\ \A q \in Updaters : fd[q] # i}
    IN  IF free = {} THEN Len(ino) + 1
        ELSE CHOOSE i \in free : \A k \in free : i <= k

\* doc.save: File::create makes the file, or empties the one that has the
\* name (lib.rs 450)
SaveCreate(p) ==
    /\ pc[p] = "create"
    /\ IF dir[tmp[p]] = 0
       THEN /\ ino' = IF FreeInode > Len(ino) THEN Append(ino, <<>>)
                      ELSE [ino EXCEPT ![FreeInode] = <<>>]
            /\ dir' = [dir EXCEPT ![tmp[p]] = FreeInode]
            /\ fd' = [fd EXCEPT ![p] = FreeInode]
       ELSE /\ ino' = [ino EXCEPT ![dir[tmp[p]]] = <<>>]
            /\ fd' = [fd EXCEPT ![p] = dir[tmp[p]]]
            /\ UNCHANGED dir
    /\ pos' = [pos EXCEPT ![p] = 0]
    /\ pc' = [pc EXCEPT ![p] = "write"]
    /\ UNCHANGED <<arg, mem, stamp, tmp, res, pre, calls, hist, rd>>
    /\ UNCHANGED seen
    /\ UNCHANGED codecVars
    /\ UNCHANGED bufVars
    /\ UNCHANGED cliVars

\* doc.save: one write to the open file; the last one ends the save and
\* closes the file
SaveWrite(p) ==
    /\ pc[p] = "write"
    /\ pos[p] < SaveChunks
    /\ ino' = [ino EXCEPT ![fd[p]] = WriteAt(@, pos[p], Chunk(mem[p], pos[p] + 1))]
    /\ IF pos[p] + 1 = SaveChunks
       THEN /\ pc' = [pc EXCEPT ![p] = "rename"]
            /\ pos' = [pos EXCEPT ![p] = 0]
            /\ fd' = [fd EXCEPT ![p] = 0]
       ELSE /\ pos' = [pos EXCEPT ![p] = pos[p] + 1]
            /\ UNCHANGED <<pc, fd>>
    /\ UNCHANGED <<dir, arg, mem, stamp, tmp, res, pre, calls, hist, rd>>
    /\ UNCHANGED seen
    /\ UNCHANGED codecVars
    /\ UNCHANGED bufVars
    /\ UNCHANGED cliVars

\* doc.save returns Err: File::create failed, or a write did
SaveFails(p) ==
    /\ pc[p] \in {"create", "write"}
    /\ pc' = [pc EXCEPT ![p] = "save_failed"]
    /\ fd' = [fd EXCEPT ![p] = 0]
    /\ pos' = [pos EXCEPT ![p] = 0]
    /\ UNCHANGED <<dir, ino, arg, mem, stamp, tmp, res, pre, calls, hist, rd>>
    /\ UNCHANGED seen
    /\ UNCHANGED codecVars
    /\ UNCHANGED bufVars
    /\ UNCHANGED cliVars

\* the cleanup after a failed save, and the error returned (lib.rs 451-453)
SaveCleanup(p, possible) ==
    /\ pc[p] = "save_failed"
    /\ dir' = RemoveFile(dir, tmp[p], possible)
    /\ ino' = Release(dir', ino)
    /\ Finish(p, [ok |-> FALSE, err |-> "Error saving to temporary file",
                  removable |-> possible])
    /\ UNCHANGED <<arg, mem, stamp, tmp, pre, calls, hist, rd>>
    /\ UNCHANGED seen
    /\ UNCHANGED codecVars
    /\ UNCHANGED bufVars
    /\ UNCHANGED cliVars

\* fs::rename(&temp_file_path, original_path) succeeds (lib.rs 457, 463)
Rename(p) ==
    /\ pc[p] = "rename"
    /\ dir[tmp[p]] # 0
    /\ dir' = RenameEntry(dir, tmp[p], Target)
    /\ ino' = Release(dir', ino)
    /\ hist' = Append(hist, arg[p])
    /\ Finish(p, Ok("updated"))
    /\ UNCHANGED <<arg, mem, stamp, tmp, pre, calls, rd>>
    /\ UNCHANGED seen
    /\ UNCHANGED codecVars
    /\ UNCHANGED bufVars
    /\ UNCHANGED cliVars

\* fs::rename returns Err: the file system refuses, or the temporary file's
\* name is gone
RenameFails(p) ==
    /\ pc[p] = "rename"
    /\ pc' = [pc EXCEPT ![p] = "rename_failed"]
    /\ UNCHANGED <<dir, ino, arg, mem, stamp, tmp, fd, pos, res, pre, calls, hist, rd>>
    /\ UNCHANGED seen
    /\ UNCHANGED codecVars
    /\ UNCHANGED bufVars
    /\ UNCHANGED cliVars

\* the cleanup after a failed rename, and the error returned (lib.rs 458-460)
RenameCleanup(p, possible) ==
    /\ pc[p] = "rename_failed"
    /\ dir' = RemoveFile(dir, tmp[p], possible)
    /\ ino' = Release(dir', ino)
    /\ Finish(p, [ok |-> FALSE, err |-> "Error renaming temporary file",
                  removable |-> possible])
    /\ UNCHANGED <<arg, mem, stamp, tmp, pre, calls, hist, rd>>
    /\ UNCHANGED seen
    /\ UNCHANGED codecVars
    /\ UNCHANGED bufVars
    /\ UNCHANGED cliVars

\* the process dies between two steps
Crash(p) ==
    /\ pc[p] \in {"load", "create", "write", "save_failed", "rename", "rename_failed"}
    /\ Finish(p, Err("crashed"))
    /\ UNCHANGED <<dir, ino, arg, mem, stamp, tmp, pre, calls, hist, rd>>
    /\ UNCHANGED seen
    /\ UNCHANGED codecVars
    /\ UNCHANGED bufVars
    /\ UNCHANGED cliVars

\* the caller has its result; nothing of the invocation remains
Return(p) ==
    /\ pc[p] = "done"
    /\ calls < MaxCalls
    /\ pc' = [pc EXCEPT ![p] = "idle"]
    /\ arg' = [arg EXCEPT ![p] = NoArg]
    /\ mem' = [mem EXCEPT ![p] = MinimalDoc]
    /\ stamp' = [stamp EXCEPT ![p] = <<>>]
    /\ tmp' = [tmp EXCEPT ![p] = Target]
    /\ res' = [res EXCEPT ![p] = NoResult]
    /\ pre' = [pre EXCEPT ![p] = NoFile]
    /\ UNCHANGED <<dir, ino, fd, pos, calls, hist, rd>>
    /\ UNCHANGED seen
    /\ UNCHANGED codecVars
    /\ UNCHANGED bufVars
    /\ UNCHANGED cliVars

\* a reader's one get_metadata on the target
Read ==
    /\ rd = NoResult
    /\ rd' = get_metadata(dir, ino, Target)
    /\ UNCHANGED fsVars
    /\ UNCHANGED updVars
    /\ UNCHANGED codecVars
    /\ UNCHANGED bufVars
    /\ UNCHANGED cliVars

(***************************************************************************)
(* The codec on its own: a text is typed, stored as a literal string and   *)
(* read back through info_value_to_string.                                 *)
(***************************************************************************)
\* '<', '>', '4', '1', 'A', '='
AsciiAlphabet == {60, 62, 52, 49, 65, 61}

BodyLen(text) == IF StartsWith(text, TagUTF16BE) THEN Len(text) - 8 ELSE Len(text)

\* the text begins with the tag of the tagged convention
TypeTag ==
    /\ cPc = "typing"
    /\ cText = <<>>
    /\ cText' = TagUTF16BE
    /\ UNCHANGED <<cRaw, cOut, cPc>>
    /\ UNCHANGED <<fsVars, updVars, rd>>
    /\ UNCHANGED bufVars
    /\ UNCHANGED cliVars

TypeChar(c) ==
    /\ cPc = "typing"
    /\ BodyLen(cText) < MaxLen
    /\ cText' = Append(cText, c)
    /\ UNCHANGED <<cRaw, cOut, cPc>>
    /\ UNCHANGED <<fsVars, updVars, rd>>
    /\ UNCHANGED bufVars
    /\ UNCHANGED cliVars

\* the store step: Object::string_literal(metadata_value) (lib.rs 317-320)
Encode ==
    /\ cPc = "typing"
    /\ cRaw' = string_literal(cText)
    /\ cPc' = "encoded"
    /\ UNCHANGED <<cText, cOut>>
    /\ UNCHANGED <<fsVars, updVars, rd>>
    /\ UNCHANGED bufVars
    /\ UNCHANGED cliVars

\* the read step: info_value_to_string(value_object) (lib.rs 513)
Decode ==
    /\ cPc \in {"encoded", "bytes"}
    /\ cOut' = InfoValueOutcome(cRaw)
    /\ cPc' = "decoded"
    /\ UNCHANGED <<cText, cRaw>>
    /\ UNCHANGED <<fsVars, updVars, rd>>
    /\ UNCHANGED bufVars
    /\ UNCHANGED cliVars

(***************************************************************************)
(* The tagged convention of the command-line tool (main.rs 367-406): a     *)
(* text becomes "UTF16BE:" and the base64 of FE FF and its UTF-16BE code   *)
(* units, and is stored like any other value.                              *)
(***************************************************************************)
\* str::encode_utf16
RECURSIVE EncodeUtf16(_)
EncodeUtf16(text) ==
    IF text = <<>> THEN <<>>
    ELSE LET c == Head(text)
         IN  (IF c < 65536 THEN <<c>>
              ELSE <<55296 + ((c - 65536) \div 1024), 56320 + ((c - 65536) % 1024)>>)
             \o EncodeUtf16(Tail(text))

\* u16::to_be_bytes of every code unit
RECURSIVE ToBeBytes(_)
ToBeBytes(units) ==
    IF units = <<>> THEN <<>>
    ELSE <<Head(units) \div 256, Head(units) % 256>> \o ToBeBytes(Tail(units))

\* chars.chars().nth(i) of the base64 alphabet
Base64Char(i) ==
    IF i < 26 THEN 65 + i
    ELSE IF i < 52 THEN 97 + (i - 26)
    ELSE IF i < 62 THEN 48 + (i - 52)
    ELSE IF i = 62 THEN 43
    ELSE 47

\* the four characters base64_encode pushes for one chunk of one to three
\* bytes
Base64EncodeChunk(chunk) ==
    LET b0 == chunk[1]
        b1 == ByteAt(chunk, 2)
        b2 == ByteAt(chunk, 3)
    IN  <<Base64Char(b0 \div 4),
          Base64Char((b0 % 4) * 16 + (b1 \div 16)),
          IF Len(chunk) > 1 THEN Base64Char((b1 % 16) * 4 + (b2 \div 64))
          ELSE PadChar,
          IF Len(chunk) > 2 THEN Base64Char(b2 % 64) ELSE PadChar>>

RECURSIVE base64_encode(_)
base64_encode(input) ==
    IF input = <<>> THEN <<>>
    ELSE Base64EncodeChunk(Take(input, 3)) \o base64_encode(Drop(input, 3))

\* FE FF
BomBE == <<254, 255>>

encode_to_base64_utf16be(text) ==
    TagUTF16BE \o base64_encode(BomBE \o ToBeBytes(EncodeUtf16(text)))

\* the same convention without the byte-order mark in the payload
EncodeBareUtf16be(text) ==
    TagUTF16BE \o base64_encode(ToBeBytes(EncodeUtf16(text)))

\* 'A', e-acute, the euro sign, U+FEFF, and U+1F600 outside the BMP
WideAlphabet == {65, 233, 8364, 65279, 128512}

TypeWide(c) ==
    /\ cPc = "wide"
    /\ Len(cText) < MaxLen
    /\ cText' = Append(cText, c)
    /\ UNCHANGED <<cRaw, cOut, cPc>>
    /\ UNCHANGED <<fsVars, updVars, rd>>
    /\ UNCHANGED bufVars
    /\ UNCHANGED cliVars

\* the tool encodes the text and stores it (main.rs 367-375, lib.rs 317-320)
EncodeTagged ==
    /\ cPc = "wide"
    /\ cRaw' = string_literal(encode_to_base64_utf16be(cText))
    /\ cPc' = "encoded"
    /\ UNCHANGED <<cText, cOut>>
    /\ UNCHANGED <<fsVars, updVars, rd>>
    /\ UNCHANGED bufVars
    /\ UNCHANGED cliVars

\* a caller encodes the bare code units under the tag and stores them
EncodeBare ==
    /\ cPc = "wide"
    /\ cRaw' = string_literal(EncodeBareUtf16be(cText))
    /\ cPc' = "encoded"
    /\ UNCHANGED <<cText, cOut>>
    /\ UNCHANGED <<fsVars, updVars, rd>>
    /\ UNCHANGED bufVars
    /\ UNCHANGED cliVars

(***************************************************************************)
(* Values as a loaded document holds them: any bytes.                      *)
(***************************************************************************)
\* NUL, '<', '>', 'A', and the bytes C3, D8, DC, none of them UTF-8 on its
\* own
ByteAlphabet == {0, 60, 62, 65, 195, 216, 220}

\* FF FE
BomLE == <<255, 254>>

\* what a value can begin with: a byte-order mark or the tag
Prefixes == {BomBE, BomLE, TagUTF16BE}

PrefixLen(bs) ==
    IF StartsWith(bs, TagUTF16BE) THEN 8
    ELSE IF HasBomBE(bs) \/ HasBomLE(bs) THEN 2
    ELSE 0

TypePrefix(prefix) ==
    /\ cPc = "bytes"
    /\ cRaw.bytes = <<>>
    /\ cRaw' = StringObject(prefix)
    /\ UNCHANGED <<cText, cOut, cPc>>
    /\ UNCHANGED <<fsVars, updVars, rd>>
    /\ UNCHANGED bufVars
    /\ UNCHANGED cliVars

TypeByte(b) ==
    /\ cPc = "bytes"
    /\ Len(cRaw.bytes) - PrefixLen(cRaw.bytes) < MaxBytes
    /\ cRaw' = StringObject(Append(cRaw.bytes, b))
    /\ UNCHANGED <<cText, cOut, cPc>>
    /\ UNCHANGED <<fsVars, updVars, rd>>
    /\ UNCHANGED bufVars
    /\ UNCHANGED cliVars

(***************************************************************************)
(* The buffer entry points: get_pdf_metadata, set_pdf_metadata and         *)
(* update_pdf_metadata_in_place work on the bytes of a document in memory. *)
(***************************************************************************)
NoCall == [op |-> "none", key |-> <<>>, value |-> <<>>, input |-> <<>>,
           result |-> NoResult]

BufOff ==
    /\ buf = <<>>
    /\ last = NoCall
    /\ puts = <<>>

\* a loader that takes bytes that are no document for an empty document,
\* for comparison with LoadMem
LoadMemLenient(pdf_content) ==
    IF Parse(pdf_content).ok THEN Parse(pdf_content) ELSE Ok(MinimalDoc)

\* Document::load_mem(pdf_content)
LoadMem(pdf_content) == Parse(pdf_content)

\* a listing that reports a missing Info dictionary as an error, for
\* comparison with get_pdf_metadata
GetOrFail(pdf_content) ==
    LET doc == LoadMem(pdf_content)
    IN  IF ~ doc.ok THEN doc
        ELSE IF List(doc.val) = <<>> THEN Err("no Info dictionary")
        ELSE Ok(List(doc.val))

get_pdf_metadata(pdf_content) ==
    LET doc == LoadMem(pdf_content)
    IN  IF doc.ok THEN Ok(List(doc.val)) ELSE doc

\* doc.save_to(&mut buffer) writes what doc.save writes
set_pdf_metadata(pdf_content, metadata_key, metadata_value, now) ==
    LET doc == LoadMem(pdf_content)
        put == Put(doc.val, metadata_key, metadata_value, PdfDate(now))
    IN  IF ~ doc.ok THEN doc
        ELSE IF ~ put.ok THEN put
        ELSE Ok(Serialize(put.val))

update_pdf_metadata_in_place(pdf_content, metadata_key, metadata_value, now) ==
    set_pdf_metadata(pdf_content, metadata_key, metadata_value, now)

\* the keys a caller of the buffer entry points writes
BufferKeys == PutKeys \cup {AuthorText}

\* the buffers a caller can start with: documents, a truncated document,
\* bytes that are no document, and no bytes at all
BufferDocs ==
    {MinimalDoc, TitledDoc, DanglingDoc, NonDictDoc, InlineInfoDoc, KindsDoc}
Buffers ==
    {Serialize(d) : d \in BufferDocs}
        \cup {Garbage, Take(Serialize(MinimalDoc), SaveChunks - 1), <<>>}

GetPdf ==
    /\ last' = [op |-> "get", key |-> <<>>, value |-> <<>>, input |-> buf,
                result |-> get_pdf_metadata(buf)]
    /\ UNCHANGED <<buf, puts>>
    /\ UNCHANGED <<fsVars, updVars, rd>>
    /\ UNCHANGED codecVars
    /\ UNCHANGED cliVars

\* the caller goes on with the bytes returned
SetPdf(key, value, t) ==
    /\ Len(puts) < MaxPuts
    /\ LET result == set_pdf_metadata(buf, key, value, LocalNow(t))
       IN  /\ last' = [op |-> "set", key |-> key, value |-> value,
                       input |-> buf, result |-> result]
           /\ buf' = IF result.ok THEN result.val ELSE buf
           /\ puts' = IF result.ok
                      THEN Append(puts, [key |-> key, value |-> value])
                      ELSE puts
    /\ UNCHANGED <<fsVars, updVars, rd>>
    /\ UNCHANGED codecVars
    /\ UNCHANGED cliVars

UpdatePdf(key, value, t) ==
    /\ Len(puts) < MaxPuts
    /\ LET result == update_pdf_metadata_in_place(buf, key, value, LocalNow(t))
       IN  /\ last' = [op |-> "update", key |-> key, value |-> value,
                       input |-> buf, result |-> result]
           /\ buf' = IF result.ok THEN result.val ELSE buf
           /\ puts' = IF result.ok
                      THEN Append(puts, [key |-> key, value |-> value])
                      ELSE puts
    /\ UNCHANGED <<fsVars, updVars, rd>>
    /\ UNCHANGED codecVars
    /\ UNCHANGED cliVars

(***************************************************************************)
(* The clock.  chrono keeps a local offset strictly within a day of UTC,   *)
(* counted in seconds; the stamp is made from one reading of the clock.    *)
(***************************************************************************)
MaxOffset == 86399

\* 2024-01-01 00:00:00 local time, at every offset chrono can hold
Clocks ==
    {[digits |-> <<50, 48, 50, 52, 48, 49, 48, 49, 48, 48, 48, 48, 48, 48>>,
      offset |-> o] : o \in (-MaxOffset)..MaxOffset}

NoClock == [digits |-> <<>>, offset |-> 0]

DateOff ==
    /\ clock = NoClock
    /\ date = <<>>

NoPaths == [input |-> Target, output |-> Target]

SetOff ==
    /\ paths = NoPaths
    /\ preOut = NoFile

NoJob == [op |-> "none", old |-> <<>>, new |-> <<>>, value |-> <<>>]

JobOff == job = NoJob

NotShown == [done |-> FALSE, out |-> <<>>]

ListOff ==
    /\ entry = <<>>
    /\ shown = NotShown

CliOff ==
    /\ DateOff
    /\ SetOff
    /\ JobOff
    /\ ListOff

\* let now = Local::now(); ... let pdf_date_formatted = format!(...)
StampDate ==
    /\ date = <<>>
    /\ clock # NoClock
    /\ date' = PdfDate(clock)
    /\ UNCHANGED clock
    /\ UNCHANGED <<fsVars, updVars, rd>>
    /\ UNCHANGED <<codecVars, bufVars, setVars, jobVars, listVars>>

(***************************************************************************)
(* set_metadata: load file_path, put, save straight onto output_path.      *)
(***************************************************************************)
\* a save made onto the file that was loaded, for comparison with SavePath
SavePathIsInput(given) == given.input

\* the path doc.save is given (lib.rs 336)
SavePath(given) == given.output

\* the call (lib.rs 291-296)
SetCall(input, output, key, value) ==
    /\ pc["u1"] \in {"idle", "done"}
    /\ calls < MaxCalls
    /\ calls' = calls + 1
    /\ paths' = [input |-> input, output |-> output]
    /\ arg' = [arg EXCEPT !["u1"] = [key |-> key, value |-> value]]
    /\ pre' = [pre EXCEPT !["u1"] = FileAt(dir, ino, input)]
    /\ preOut' = FileAt(dir, ino, output)
    /\ pc' = [pc EXCEPT !["u1"] = "set_load"]
    /\ res' = [res EXCEPT !["u1"] = NoResult]
    /\ UNCHANGED <<dir, ino, mem, stamp, tmp, fd, pos, hist, seen, rd>>
    /\ UNCHANGED <<codecVars, bufVars, dateVars, jobVars, listVars>>

\* Document::load(file_path)? and the mutation of the Info dictionary, with
\* the clock read at instant t (lib.rs 297-334)
SetLoadAndPut(t) ==
    /\ pc["u1"] = "set_load"
    /\ LET loaded == Load(dir, ino, paths.input)
           put == Put(loaded.val, arg["u1"].key, arg["u1"].value,
                      PdfDate(LocalNow(t)))
       IN  IF ~ loaded.ok THEN
               /\ Finish("u1", loaded)
               /\ UNCHANGED <<mem, stamp>>
           ELSE IF ~ put.ok THEN
               /\ Finish("u1", Err("info"))
               /\ UNCHANGED <<mem, stamp>>
           ELSE
               /\ mem' = [mem EXCEPT !["u1"] = put.val]
               /\ stamp' = [stamp EXCEPT !["u1"] = PdfDate(LocalNow(t))]
               /\ pc' = [pc EXCEPT !["u1"] = "set_create"]
               /\ UNCHANGED <<res, fd, pos>>
    /\ UNCHANGED <<dir, ino, arg, tmp, pre, calls, hist, seen, rd>>
    /\ UNCHANGED <<codecVars, bufVars, cliVars>>

\* doc.save(output_path): File::create makes the file, or empties the one
\* that has the name (lib.rs 336)
SetCreate ==
    /\ pc["u1"] = "set_create"
    /\ IF dir[SavePath(paths)] = 0
       THEN /\ ino' = IF FreeInode > Len(ino) THEN Append(ino, <<>>)
                      ELSE [ino EXCEPT ![FreeInode] = <<>>]
            /\ dir' = [dir EXCEPT ![SavePath(paths)] = FreeInode]
            /\ fd' = [fd EXCEPT !["u1"] = FreeInode]
       ELSE /\ ino' = [ino EXCEPT ![dir[SavePath(paths)]] = <<>>]
            /\ fd' = [fd EXCEPT !["u1"] = dir[SavePath(paths)]]
            /\ UNCHANGED dir
    /\ pos' = [pos EXCEPT !["u1"] = 0]
    /\ pc' = [pc EXCEPT !["u1"] = "set_write"]
    /\ UNCHANGED <<arg, mem, stamp, tmp, res, pre, calls, hist, seen, rd>>
    /\ UNCHANGED <<codecVars, bufVars, cliVars>>

\* doc.save(output_path)?: File::create fails and nothing is written
SetCreateFails ==
    /\ pc["u1"] = "set_create"
    /\ Finish("u1", Err("save"))
    /\ UNCHANGED <<dir, ino, arg, mem, stamp, tmp, pre, calls, hist, seen, rd>>
    /\ UNCHANGED <<codecVars, bufVars, cliVars>>

\* doc.save(output_path): one write
SetWrite ==
    /\ pc["u1"] = "set_write"
    /\ pos["u1"] < SaveChunks
    /\ ino' = [ino EXCEPT ![fd["u1"]] =
                  WriteAt(@, pos["u1"], Serialize(mem["u1"])[pos["u1"] + 1])]
    /\ pos' = [pos EXCEPT !["u1"] = @ + 1]
    /\ UNCHANGED <<dir, pc, arg, mem, stamp, tmp, fd, res, pre, calls, hist, seen, rd>>
    /\ UNCHANGED <<codecVars, bufVars, cliVars>>

\* doc.save(output_path)?: a write fails and what was written stays
SetWriteFails ==
    /\ pc["u1"] = "set_write"
    /\ pos["u1"] < SaveChunks
    /\ Finish("u1", Err("save"))
    /\ UNCHANGED <<dir, ino, arg, mem, stamp, tmp, pre, calls, hist, seen, rd>>
    /\ UNCHANGED <<codecVars, bufVars, cliVars>>

\* Ok(()) (lib.rs 337)
SetReturn ==
    /\ pc["u1"] = "set_write"
    /\ pos["u1"] = SaveChunks
    /\ Finish("u1", Ok("saved"))
    /\ UNCHANGED <<dir, ino, arg, mem, stamp, tmp, pre, calls, hist, seen, rd>>
    /\ UNCHANGED <<codecVars, bufVars, cliVars>>

(***************************************************************************)
(* The command line: change_metadata_key, delete_metadata and              *)
(* remove_metadata_key (main.rs).                                          *)
(***************************************************************************)
\* char::is_whitespace: the characters str::trim removes
IsWhitespace(c) ==
    \/ c \in 9..13
    \/ c \in {32, 133, 160, 5760, 8232, 8233, 8239, 8287, 12288}
    \/ c \in 8192..8202

\* str::trim: the text between its first and its last character that is
\* not whitespace
trim(s) ==
    LET kept == {i \in 1..Len(s) : ~ IsWhitespace(s[i])}
    IN  IF kept = {} THEN <<>>
        ELSE SubSeq(s, CHOOSE i \in kept : \A j \in kept : i <= j,
                       CHOOSE i \in kept : \A j \in kept : j <= i)

\* the keys a user types as the new key: "Author", "Title", nothing, a
\* space, a tab, three spaces, a no-break space, and " K"
NewKeys ==
    {AuthorText, TitleText, <<>>, <<32>>, <<9>>, <<32, 32, 32>>, <<160>>,
     <<32, 75>>}

\* change_metadata_key up to the end of the prompt loop: the listing is
\* read, an entry is selected, and a new key is accepted when it is not
\* empty after trim(), is not the old key and is not a key of the listing;
\* the key is kept as typed
\* (main.rs 229-269)
ChangeSelect(selection, new_key) ==
    /\ job = NoJob
    /\ pc["u1"] = "idle"
    /\ LET metadata == get_metadata(dir, ino, Target)
       IN  /\ metadata.ok
           /\ selection \in 1..Len(metadata.val)
           /\ trim(new_key) # <<>>
           /\ new_key # metadata.val[selection].key
           /\ \A i \in 1..Len(metadata.val) : metadata.val[i].key # new_key
           /\ job' = [op |-> "change", old |-> metadata.val[selection].key,
                      new |-> new_key, value |-> metadata.val[selection].value]
    /\ UNCHANGED <<fsVars, updVars, rd>>
    /\ UNCHANGED <<codecVars, bufVars, dateVars, setVars, listVars>>

\* delete_metadata up to the confirmation (main.rs 287-313)
DeleteSelect(selection) ==
    /\ job = NoJob
    /\ pc["u1"] = "idle"
    /\ LET metadata == get_metadata(dir, ino, Target)
       IN  /\ metadata.ok
           /\ selection \in 1..Len(metadata.val)
           /\ job' = [op |-> "remove", old |-> metadata.val[selection].key,
                      new |-> <<>>, value |-> metadata.val[selection].value]
    /\ UNCHANGED <<fsVars, updVars, rd>>
    /\ UNCHANGED <<codecVars, bufVars, dateVars, setVars, listVars>>

\* update_metadata_in_place(pdf_path, &new_key, value)? (main.rs 273)
ChangeUpdate ==
    /\ job.op = "change"
    /\ calls = 0
    /\ Call("u1", job.new, job.value)

\* remove_metadata_key(pdf_path, old_key) is called: after the update has
\* returned Ok (main.rs 276), or from delete_metadata (main.rs 314)
RemoveCall ==
    /\ \/ job.op = "change" /\ calls = 1 /\ (pc["u1"] = "done" /\ res["u1"].ok)
       \/ job.op = "remove" /\ calls = 0 /\ pc["u1"] = "idle"
    /\ calls' = calls + 1
    /\ pc' = [pc EXCEPT !["u1"] = "rm_load"]
    /\ res' = [res EXCEPT !["u1"] = NoResult]
    /\ pre' = [pre EXCEPT !["u1"] = FileAt(dir, ino, Target)]
    /\ UNCHANGED <<dir, ino, arg, mem, stamp, tmp, fd, pos, hist, seen, rd>>
    /\ UNCHANGED <<codecVars, bufVars, cliVars>>

\* Document::load, the mutation and the temporary file's name, with the
\* clock read at instant t (main.rs 323-360)
RemoveLoad(t) ==
    /\ pc["u1"] = "rm_load"
    /\ LET loaded == Load(dir, ino, Target)
           removed == Remove(loaded.val, job.old, PdfDate(LocalNow(t)))
       IN  IF ~ loaded.ok THEN
               /\ Finish("u1", Err("load"))
               /\ UNCHANGED <<mem, stamp, tmp>>
           ELSE IF ~ removed.ok THEN
               /\ Finish("u1", Err("info"))
               /\ UNCHANGED <<mem, stamp, tmp>>
           ELSE
               /\ mem' = [mem EXCEPT !["u1"] = removed.val]
               /\ stamp' = [stamp EXCEPT !["u1"] = PdfDate(LocalNow(t))]
               /\ tmp' = [tmp EXCEPT !["u1"] = RemoveTempName(Target.stem, t)]
               /\ pc' = [pc EXCEPT !["u1"] = "rm_create"]
               /\ UNCHANGED <<res, fd, pos>>
    /\ UNCHANGED <<dir, ino, arg, pre, calls, hist, seen, rd>>
    /\ UNCHANGED <<codecVars, bufVars, cliVars>>

\* doc.save(&temp_path): File::create (main.rs 361)
RemoveCreate ==
    /\ pc["u1"] = "rm_create"
    /\ IF dir[tmp["u1"]] = 0
       THEN /\ ino' = IF FreeInode > Len(ino) THEN Append(ino, <<>>)
                      ELSE [ino EXCEPT ![FreeInode] = <<>>]
            /\ dir' = [dir EXCEPT ![tmp["u1"]] = FreeInode]
            /\ fd' = [fd EXCEPT !["u1"] = FreeInode]
       ELSE /\ ino' = [ino EXCEPT ![dir[tmp["u1"]]] = <<>>]
            /\ fd' = [fd EXCEPT !["u1"] = dir[tmp["u1"]]]
            /\ UNCHANGED dir
    /\ pos' = [pos EXCEPT !["u1"] = 0]
    /\ pc' = [pc EXCEPT !["u1"] = "rm_write"]
    /\ UNCHANGED <<arg, mem, stamp, tmp, res, pre, calls, hist, seen, rd>>
    /\ UNCHANGED <<codecVars, bufVars, cliVars>>

\* doc.save(&temp_path): one write; the last one ends the save
RemoveWrite ==
    /\ pc["u1"] = "rm_write"
    /\ pos["u1"] < SaveChunks
    /\ ino' = [ino EXCEPT ![fd["u1"]] =
                  WriteAt(@, pos["u1"], Chunk(mem["u1"], pos["u1"] + 1))]
    /\ IF pos["u1"] + 1 = SaveChunks
       THEN /\ pc' = [pc EXCEPT !["u1"] = "rm_rename"]
            /\ pos' = [pos EXCEPT !["u1"] = 0]
            /\ fd' = [fd EXCEPT !["u1"] = 0]
       ELSE /\ pos' = [pos EXCEPT !["u1"] = pos["u1"] + 1]
            /\ UNCHANGED <<pc, fd>>
    /\ UNCHANGED <<dir, arg, mem, stamp, tmp, res, pre, calls, hist, seen, rd>>
    /\ UNCHANGED <<codecVars, bufVars, cliVars>>

\* doc.save(&temp_path)? returns Err, File::create having failed or a write:
\* the function returns at once (main.rs 361)
RemoveSaveFails ==
    /\ pc["u1"] \in {"rm_create", "rm_write"}
    /\ Finish("u1", Err("Error saving to temporary file"))
    /\ UNCHANGED <<dir, ino, arg, mem, stamp, tmp, pre, calls, hist, seen, rd>>
    /\ UNCHANGED <<codecVars, bufVars, cliVars>>

\* fs::rename(&temp_path, pdf_path) and Ok(()) (main.rs 362-364)
RemoveRename ==
    /\ pc["u1"] = "rm_rename"
    /\ dir[tmp["u1"]] # 0
    /\ dir' = RenameEntry(dir, tmp["u1"], Target)
    /\ ino' = Release(dir', ino)
    /\ Finish("u1", Ok("removed"))
    /\ UNCHANGED <<arg, mem, stamp, tmp, pre, calls, hist, seen, rd>>
    /\ UNCHANGED <<codecVars, bufVars, cliVars>>

\* fs::rename(&temp_path, pdf_path)? returns Err: the function returns at
\* once (main.rs 362)
RemoveRenameFails ==
    /\ pc["u1"] = "rm_rename"
    /\ Finish("u1", Err("Error renaming temporary file"))
    /\ UNCHANGED <<dir, ino, arg, mem, stamp, tmp, pre, calls, hist, seen, rd>>
    /\ UNCHANGED <<codecVars, bufVars, cliVars>>

(***************************************************************************)
(* list_metadata: the value of each entry is cut for display.              *)
(***************************************************************************)
DisplayLimit == 60
DisplayCut == 57

\* str::is_char_boundary(index): the index is where a character of the
\* string begins, or is the string's length in bytes
IsCharBoundary(text, index) ==
    \E n \in 0..Len(text) : StrLen(Take(text, n)) = index

\* &value[..index]: the characters before a byte index that is a boundary
SliceTo(text, index) ==
    Take(text, CHOOSE n \in 0..Len(text) : StrLen(Take(text, n)) = index)

\* display_value (main.rs 110-114); slicing a string at a byte index that
\* is inside a character panics
display_value(value) ==
    IF StrLen(value) > DisplayLimit THEN
        IF IsCharBoundary(value, DisplayCut)
        THEN SliceTo(value, DisplayCut) \o <<46, 46, 46>>
        ELSE Panicked
    ELSE value

\* one pass of the loop over the entries (main.rs 109-117)
ShowEntry ==
    /\ ~ shown.done
    /\ shown' = [done |-> TRUE, out |-> display_value(entry)]
    /\ UNCHANGED entry
    /\ UNCHANGED <<fsVars, updVars, rd>>
    /\ UNCHANGED <<codecVars, bufVars, dateVars, setVars, jobVars>>

\* 'a', then U+00E9, U+4E2D and U+1F600: characters of one, two, three and
\* four bytes
WideChars == {233, 20013, 128512}

\* values around the limit: some 'a's, then some copies of a wide character
ListedValues ==
    {[i \in 1..(k + m) |-> IF i <= k THEN 97 ELSE c] :
        k \in (DisplayCut - 6)..(DisplayLimit + 1), m \in 0..MaxWide,
        c \in WideChars}

(***************************************************************************)
(* The specifications.                                                     *)
(***************************************************************************)
\* the files the target can be when the first invocation begins
ValidDocs == {MinimalDoc, TitledDoc}
InitDocs == {MinimalDoc, TitledDoc, DanglingDoc, NonDictDoc}

UpdInit(active) ==
    /\ pc = [p \in Updaters |-> IF p \in active THEN "idle" ELSE "off"]
    /\ arg = [p \in Updaters |-> NoArg]
    /\ mem = [p \in Updaters |-> MinimalDoc]
    /\ stamp = [p \in Updaters |-> <<>>]
    /\ tmp = [p \in Updaters |-> Target]
    /\ fd = [p \in Updaters |-> 0]
    /\ pos = [p \in Updaters |-> 0]
    /\ res = [p \in Updaters |-> NoResult]
    /\ pre = [p \in Updaters |-> NoFile]
    /\ calls = 0
    /\ hist = <<>>
    /\ seen = [p \in Updaters |-> 0]
    /\ rd = NoResult

CodecOff ==
    /\ cText = <<>>
    /\ cRaw = StringObject(<<>>)
    /\ cOut = <<>>
    /\ cPc = "off"

FsInit(contents) ==
    \/ /\ dir = [n \in Names |-> 0]
       /\ ino = <<>>
       /\ contents = {}
    \/ /\ dir = [n \in Names |-> IF n = Target THEN 1 ELSE 0]
       /\ \E c \in contents : ino = <<c>>

\* two processes update the same path while a third reads it
Init ==
    /\ FsInit({Serialize(d) : d \in ValidDocs})
    /\ UpdInit(Updaters)
    /\ BufOff
    /\ CliOff
    /\ CodecOff

\* one process updates the path, again and again, while another reads it;
\* the path may be missing, or hold a file that is no document
InitSolo ==
    /\ \/ FsInit({})
       \/ FsInit({Serialize(d) : d \in InitDocs} \cup {Garbage})
    /\ UpdInit({"u1"})
    /\ BufOff
    /\ CliOff
    /\ CodecOff

InitCodec ==
    /\ FsInit({})
    /\ UpdInit({})
    /\ BufOff
    /\ CliOff
    /\ cText = <<>>
    /\ cRaw = StringObject(<<>>)
    /\ cOut = <<>>
    /\ cPc = "typing"

\* two processes, one invocation each, and the reader
Next ==
    \/ \E p \in Updaters :
        \/ Call(p, RaceArg(p).key, RaceArg(p).value)
        \/ \E t \in Instants : LoadAndPut(p, t)
        \/ SaveCreate(p)
        \/ SaveWrite(p)
        \/ SaveFails(p)
        \/ \E possible \in BOOLEAN : SaveCleanup(p, possible)
        \/ Rename(p)
        \/ RenameFails(p)
        \/ \E possible \in BOOLEAN : RenameCleanup(p, possible)
        \/ Crash(p)
    \/ Read

\* one process, one invocation after the other, and the reader
NextSolo ==
    \/ \E key \in PutKeys, value \in PutValues : Call("u1", key, value)
    \/ \E t \in Instants : LoadAndPut("u1", t)
    \/ SaveCreate("u1")
    \/ SaveWrite("u1")
    \/ SaveFails("u1")
    \/ \E possible \in BOOLEAN : SaveCleanup("u1", possible)
    \/ Rename("u1")
    \/ RenameFails("u1")
    \/ \E possible \in BOOLEAN : RenameCleanup("u1", possible)
    \/ Crash("u1")
    \/ Return("u1")
    \/ Read

\* a text with non-ASCII characters goes through the tagged convention
InitTagged ==
    /\ FsInit({})
    /\ UpdInit({})
    /\ BufOff
    /\ CliOff
    /\ cText = <<>>
    /\ cRaw = StringObject(<<>>)
    /\ cOut = <<>>
    /\ cPc = "wide"

NextTagged ==
    \/ \E c \in WideAlphabet : TypeWide(c)
    \/ EncodeTagged
    \/ EncodeBare
    \/ Decode

\* a value of any bytes is read through info_value_to_string
InitBytes ==
    /\ FsInit({})
    /\ UpdInit({})
    /\ BufOff
    /\ CliOff
    /\ cText = <<>>
    /\ cRaw = StringObject(<<>>)
    /\ cOut = <<>>
    /\ cPc = "bytes"

NextBytes ==
    \/ \E prefix \in Prefixes : TypePrefix(prefix)
    \/ \E b \in ByteAlphabet : TypeByte(b)
    \/ Decode

\* a caller of the buffer entry points
InitBuffers ==
    /\ FsInit({})
    /\ UpdInit({})
    /\ CodecOff
    /\ buf \in Buffers
    /\ last = NoCall
    /\ puts = <<>>
    /\ CliOff

NextBuffers ==
    \/ GetPdf
    \/ \E key \in BufferKeys, value \in PutValues, t \in Instants :
          \/ SetPdf(key, value, t)
          \/ UpdatePdf(key, value, t)

\* '+' and U+00E9, which from_str_radix and chunks(2) treat in their own way
SignAndAccent == {43, 233}

NextCodec ==
    \/ TypeTag
    \/ \E c \in AsciiAlphabet \cup SignAndAccent : TypeChar(c)
    \/ Encode
    \/ Decode

\* a process reads the clock at some local offset and formats the stamp
InitDate ==
    /\ FsInit({})
    /\ UpdInit({})
    /\ CodecOff
    /\ BufOff
    /\ clock \in Clocks
    /\ date = <<>>
    /\ SetOff
    /\ JobOff
    /\ ListOff

NextDate == StampDate

\* one process calls set_metadata, one call after the other; the input may
\* be missing or no document, the output path may be the input's, and a
\* file may be at the output path already
InitSet ==
    /\ \E target \in {0, 1}, output \in {0, 2},
          content \in {Serialize(d) : d \in InitDocs} \cup {Garbage} :
          /\ dir = [n \in Names |-> IF n = Target THEN target
                                    ELSE IF n = OutputPath THEN output ELSE 0]
          /\ ino = Release(dir, <<content, Serialize(TitledDoc)>>)
    /\ UpdInit({"u1"})
    /\ CodecOff
    /\ BufOff
    /\ DateOff
    /\ SetOff
    /\ JobOff
    /\ ListOff

NextSet ==
    \/ \E input \in {Target, OutputPath}, output \in {Target, OutputPath},
          value \in PutValues :
          SetCall(input, output, TitleText, value)
    \/ \E t \in Instants : SetLoadAndPut(t)
    \/ SetCreate
    \/ SetCreateFails
    \/ SetWrite
    \/ SetWriteFails
    \/ SetReturn

\* a document update_metadata_in_place has written: a Title and a ModDate
StampedDoc == Put(TitledDoc, TitleText, TextV1, PdfDate(LocalNow(1))).val

\* one user changes a key or deletes an entry of the file at the path
ChangeDocs == {MinimalDoc, TitledDoc, StampedDoc, Utf16TitleDoc, KindsDoc}

InitChange ==
    /\ \/ FsInit({})
       \/ FsInit({Serialize(d) : d \in ChangeDocs} \cup {Garbage})
    /\ UpdInit({"u1"})
    /\ CodecOff
    /\ BufOff
    /\ CliOff

NextChange ==
    \/ \E selection \in 1..MaxSelection, new_key \in NewKeys :
          ChangeSelect(selection, new_key)
    \/ \E selection \in 1..MaxSelection : DeleteSelect(selection)
    \/ ChangeUpdate
    \/ \E t \in Instants : LoadAndPut("u1", t)
    \/ SaveCreate("u1")
    \/ SaveWrite("u1")
    \/ SaveFails("u1")
    \/ \E possible \in BOOLEAN : SaveCleanup("u1", possible)
    \/ Rename("u1")
    \/ RenameFails("u1")
    \/ \E possible \in BOOLEAN : RenameCleanup("u1", possible)
    \/ RemoveCall
    \/ \E t \in Instants : RemoveLoad(t)
    \/ RemoveCreate
    \/ RemoveWrite
    \/ RemoveSaveFails
    \/ RemoveRename
    \/ RemoveRenameFails

\* list_metadata prints one entry it has read
InitList ==
    /\ FsInit({})
    /\ UpdInit({})
    /\ CodecOff
    /\ BufOff
    /\ DateOff
    /\ SetOff
    /\ JobOff
    /\ entry \in ListedValues
    /\ shown = NotShown

NextList == ShowEntry

Spec == Init /\ [][Next]_vars
SpecSolo == InitSolo /\ [][NextSolo]_vars
SpecCodec == InitCodec /\ [][NextCodec]_vars
SpecTagged == InitTagged /\ [][NextTagged]_vars
SpecBytes == InitBytes /\ [][NextBytes]_vars
SpecBuffers == InitBuffers /\ [][NextBuffers]_vars
SpecDate == InitDate /\ [][NextDate]_vars
SpecSet == InitSet /\ [][NextSet]_vars
SpecChange == InitChange /\ [][NextChange]_vars
SpecList == InitList /\ [][NextList]_vars

(***************************************************************************)
(* Properties of update_metadata_in_place.                                 *)
(***************************************************************************)
Active(p) == pc[p] \notin {"idle", "off"}
Returned(p) == pc[p] = "done"
ReturnedOk(p) == pc[p] = "done" /\ res[p].ok
TargetFile == FileAt(dir, ino, Target)

\* the entries of a document's Info dictionary, as they are stored
InfoEntries(doc) ==
    IF /\ InfoDictId(doc).ok
       /\ InfoDictId(doc).val \in DOMAIN doc.objects
       /\ doc.objects[InfoDictId(doc).val].type = "Dictionary"
    THEN doc.objects[InfoDictId(doc).val].entries
    ELSE <<>>

Stores(entries, key, object) ==
    \E i \in 1..Len(entries) : entries[i].key = key /\ entries[i].value = object

Lists(list, key, value) ==
    \E i \in 1..Len(list) : list[i].key = key /\ list[i].value = value

TempStates == {"create", "write", "save_failed", "rename", "rename_failed"}

\* C1: while an invocation of update_metadata_in_place runs, and after it
\* has returned or crashed, the file at the target path is the file that was
\* there when the invocation began or, once the rename has happened, the
\* complete document the invocation built; no save ever has the target's
\* inode open.
C1_TargetNeverHalfWritten ==
    \A p \in Updaters :
        Active(p) =>
            /\ \/ TargetFile = pre[p]
               \/ /\ ReturnedOk(p)
                  /\ TargetFile = [exists |-> TRUE, data |-> Serialize(mem[p])]
            /\ fd[p] # 0 => fd[p] # dir[Target]

\* an invocation crashed in the middle of its save, leaving a partly written
\* temporary file beside the untouched target
C1_Witness ==
    /\ Returned("u1")
    /\ res["u1"] = Err("crashed")
    /\ pre["u1"].exists
    /\ dir[tmp["u1"]] # 0
    /\ Len(ino[dir[tmp["u1"]]]) \in 1..(SaveChunks - 1)

\* C2: when update_metadata_in_place has returned Ok, the target is the
\* complete document with the written key and value and a ModDate entry, and
\* the temporary file of the invocation has no name left in the directory.
C2_OkMeansUpdatedNoTemp ==
    \A p \in Updaters :
        ReturnedOk(p) =>
            /\ TargetFile.exists
            /\ Parse(TargetFile.data) = Ok(mem[p])
            /\ arg[p].key # ModDateText =>
                   Stores(InfoEntries(mem[p]), Utf8Bytes(arg[p].key),
                          string_literal(arg[p].value))
            /\ HasKey(InfoEntries(mem[p]), ModDateKey)
            /\ tmp[p] # Target
            /\ dir[tmp[p]] = 0

\* an invocation returned Ok on a document that had no Info dictionary
C2_Witness ==
    /\ ReturnedOk("u1")
    /\ pre["u1"] = [exists |-> TRUE, data |-> Serialize(MinimalDoc)]
    /\ arg["u1"].key = TitleText

SaveError == "Error saving to temporary file"
RenameError == "Error renaming temporary file"
ReturnedErrors == {"load", "info", SaveError, RenameError}
ErrorOf(result) == IF result.ok THEN "" ELSE result.err

\* C3: when update_metadata_in_place has returned an error of the load, of
\* the Info lookup, of the save or of the rename, the target is the file it
\* was when the invocation began; after a failed save or rename the
\* temporary file has no name left when its removal was possible; and the
\* step out of a failed save (rename) returns the save (rename) error
\* whether or not the removal worked.
C3_ErrorLeavesTarget ==
    /\ [](\A p \in Updaters :
            (Returned(p) /\ ErrorOf(res[p]) \in ReturnedErrors) =>
                /\ TargetFile = pre[p]
                /\ (ErrorOf(res[p]) \in {SaveError, RenameError} /\ res[p].removable)
                       => dir[tmp[p]] = 0)
    /\ [][\A p \in Updaters :
            (pc'[p] = "done" /\ ErrorOf(res'[p]) # "crashed") =>
                /\ pc[p] = "save_failed" => ErrorOf(res'[p]) = SaveError
                /\ pc[p] = "rename_failed" => ErrorOf(res'[p]) = RenameError]_vars

\* a rename failed, the removal of the temporary file failed too, and the
\* rename error was returned
C3_Witness ==
    /\ Returned("u1")
    /\ ErrorOf(res["u1"]) = RenameError
    /\ ~ res["u1"].removable
    /\ dir[tmp["u1"]] # 0
    /\ TargetFile = pre["u1"]

\* C4: an invocation on a path that does not exist returns "Original file
\* not found" in its first step, which changes neither the directory nor any
\* file.
C4_NotFoundBeforeAnything ==
    [][\A p \in Updaters :
          (pc[p] = "idle" /\ pc'[p] # "idle" /\ dir[Target] = 0) =>
              /\ pc'[p] = "done"
              /\ res'[p] = Err("Original file not found")
              /\ dir' = dir
              /\ ino' = ino]_vars

\* an invocation found no file at the path
C4_Witness ==
    /\ Returned("u1")
    /\ res["u1"] = Err("Original file not found")
    /\ \A n \in Names : dir[n] = 0

\* C5: two invocations that are both between the choice of the temporary
\* file's name and their return use different names.
C5_TempNamesDistinct ==
    \A p, q \in Updaters :
        (p # q /\ pc[p] \in TempStates /\ pc[q] \in TempStates) => tmp[p] # tmp[q]

\* C6: the target always parses as a complete document, the reader's
\* get_metadata never fails to load it, and once both invocations have
\* returned the target is the document of the one that renamed last.
C6_ReaderSeesCompleteDocument ==
    /\ Parse(TargetFile.data).ok
    /\ rd = NoResult \/ rd.ok
    /\ \A p \in Updaters :
          (/\ \A q \in Updaters : Returned(q)
           /\ hist # <<>>
           /\ hist[Len(hist)] = arg[p])
              => TargetFile.data = Serialize(mem[p])

\* C7: after a successful Put of a key other than ModDate, List on the
\* target yields the key with exactly the written value, and a ModDate entry.
C7_PutThenListYieldsValue ==
    \A p \in Updaters :
        (ReturnedOk(p) /\ arg[p].key # ModDateText) =>
            LET listed == get_metadata(dir, ino, Target)
            IN  /\ listed.ok
                /\ Lists(listed.val, arg[p].key, arg[p].value)
                /\ \E i \in 1..Len(listed.val) : listed.val[i].key = ModDateText

\* C8: after a successful Put the stored ModDate is the stamp made from the
\* clock, List yields that stamp for ModDate, and a Put of the key ModDate
\* itself leaves the stamp, not the value written.
C8_ModDateIsTheStamp ==
    \A p \in Updaters :
        ReturnedOk(p) =>
            LET doc == Parse(TargetFile.data)
                listed == get_metadata(dir, ino, Target)
            IN  /\ doc.ok
                /\ stamp[p] \in {PdfDate(LocalNow(t)) : t \in Instants}
                /\ Stores(InfoEntries(doc.val), ModDateKey, string_literal(stamp[p]))
                /\ \A i \in 1..Len(listed.val) :
                       listed.val[i].key = ModDateText
                           => listed.val[i].value = stamp[p]
                /\ Lists(listed.val, ModDateText, stamp[p])

\* a Put of the key ModDate returned Ok
C8_Witness ==
    /\ ReturnedOk("u1")
    /\ arg["u1"].key = ModDateText

\* C9: after two successive successful Puts of one key other than ModDate,
\* List yields one entry for the key, with the second value, and the first
\* value is gone.
C9_SecondPutOverwrites ==
    \A p \in Updaters :
        (/\ ReturnedOk(p)
         /\ Len(hist) >= 2
         /\ hist[Len(hist)] = arg[p]
         /\ hist[Len(hist) - 1].key = arg[p].key
         /\ arg[p].key # ModDateText) =>
            LET listed == get_metadata(dir, ino, Target)
                at == {i \in 1..Len(listed.val) : listed.val[i].key = arg[p].key}
            IN  /\ listed.ok
                /\ Cardinality(at) = 1
                /\ \A i \in at : listed.val[i].value = arg[p].value
                /\ hist[Len(hist) - 1].value # arg[p].value
                       => ~ Lists(listed.val, arg[p].key, hist[Len(hist) - 1].value)

(***************************************************************************)
(* Properties of the codec.                                                *)
(***************************************************************************)
IsAscii(text) == \A i \in 1..Len(text) : text[i] < 128

\* C10: a plain-ASCII text stored by the standard encoder decodes to itself.
C10_AsciiRoundTrip ==
    (cPc = "decoded" /\ IsAscii(cText)) => cOut = cText

(***************************************************************************)
(* Properties of the tagged convention.                                    *)
(***************************************************************************)
\* C11: a text with non-ASCII code points, encoded by the tagged convention
\* (the tag, then the base64 of FE FF and the UTF-16BE code units), decodes
\* to itself.
C11_TaggedRoundTrip ==
    (/\ cPc = "decoded"
     /\ ~ IsAscii(cText)
     /\ cRaw = string_literal(encode_to_base64_utf16be(cText)))
        => cOut = cText

\* a text with a character outside the BMP and a payload of 2 modulo 3
\* bytes has been encoded with the mark and decoded
C11_Witness ==
    /\ cPc = "decoded"
    /\ cRaw = string_literal(encode_to_base64_utf16be(cText))
    /\ \E i \in 1..Len(cText) : cText[i] > 65535
    /\ Len(BomBE \o ToBeBytes(EncodeUtf16(cText))) % 3 = 2
    /\ cOut = cText

\* C14: under the tag, the base64 of the UTF-16BE code units of a text
\* decodes to the text, with the byte-order mark in the payload and without
\* it.
C14_TaggedWithOrWithoutMark ==
    (/\ cPc = "decoded"
     /\ cRaw \in {string_literal(encode_to_base64_utf16be(cText)),
                  string_literal(EncodeBareUtf16be(cText))})
        => cOut = cText

\* the text after the tag
TagBody(text) == Drop(text, 8)

\* base64 as the alphabet defines it: groups of four characters, with one
\* or two '=' allowed only at the very end
WellFormedBase64(body) ==
    /\ Len(body) > 0
    /\ Len(body) % 4 = 0
    /\ \A i \in 1..Len(body) :
           \/ Base64Pos(body[i]) >= 0
           \/ /\ body[i] = PadChar
              /\ i >= Len(body) - 1
              /\ \A j \in i..Len(body) : body[j] = PadChar

\* bytes that are UTF-16BE text, with or without a leading FE FF
ValidUtf16BE(bs) ==
    /\ Len(bs) % 2 = 0
    /\ FromUtf16(UnitsBE(IF HasBomBE(bs) THEN Drop(bs, 2) ELSE bs)).ok

\* C12: a stored value that is the tag followed by malformed base64 (invalid
\* characters, too few characters, or nothing) decodes to a non-empty
\* string.
C12_MalformedTaggedNonEmpty ==
    (/\ cPc = "decoded"
     /\ StartsWith(cText, TagUTF16BE)
     /\ ~ WellFormedBase64(TagBody(cText)))
        => cOut # <<>>

\* C13: a stored value that is the tag followed by something that is not
\* base64, or by base64 of bytes that are not UTF-16BE, decodes to the
\* stored tag-prefixed string itself.
C13_FailedTaggedReturnsOriginal ==
    (/\ cPc = "decoded"
     /\ StartsWith(cText, TagUTF16BE)
     /\ \/ ~ WellFormedBase64(TagBody(cText))
        \/ ~ ValidUtf16BE(base64_to_bytes(TagBody(cText)).val))
        => cOut = cText

(***************************************************************************)
(* Properties of info_value_to_string on any bytes.                        *)
(***************************************************************************)
IsScalarValue(c) == c \in 0..1114111 /\ ~ (c >= 55296 /\ c <= 57343)

\* C15: for every stored byte sequence info_value_to_string returns a
\* string: no slice it takes is out of bounds, and what it returns is a
\* sequence of Unicode scalar values.
C15_DecodeIsTotal ==
    cPc = "decoded" =>
        /\ cOut # Panicked
        /\ \A i \in 1..Len(cOut) : IsScalarValue(cOut[i])

\* a single '<' has been decoded, to itself
C15_Witness ==
    /\ cPc = "decoded"
    /\ cRaw.bytes = <<LtChar>>
    /\ cOut = <<LtChar>>

\* code units in which every surrogate is half of a pair
WellFormedUtf16(units) ==
    \A i \in 1..Len(units) :
        /\ IsHighSurrogate(units[i]) =>
               i < Len(units) /\ IsLowSurrogate(units[i + 1])
        /\ IsLowSurrogate(units[i]) =>
               i > 1 /\ IsHighSurrogate(units[i - 1])

\* the bytes of code units, high byte first or low byte first
RECURSIVE UnitBytes(_, _)
UnitBytes(units, highFirst) ==
    IF units = <<>> THEN <<>>
    ELSE (IF highFirst THEN <<Head(units) \div 256, Head(units) % 256>>
          ELSE <<Head(units) % 256, Head(units) \div 256>>)
         \o UnitBytes(Tail(units), highFirst)

\* the text whose UTF-16 encoding, in the given byte order, is the bytes
IsUtf16TextOf(text, bs, highFirst) ==
    /\ \A i \in 1..Len(text) : IsScalarValue(text[i])
    /\ UnitBytes(EncodeUtf16(text), highFirst) = bs

\* the code units of an even number of bytes, in the given byte order
UnitsOf(bs, highFirst) ==
    [i \in 1..(Len(bs) \div 2) |->
        IF highFirst THEN bs[2 * i - 1] * 256 + bs[2 * i]
        ELSE bs[2 * i] * 256 + bs[2 * i - 1]]

\* C19: bytes that begin with FE FF (FF FE) and go on with an even number
\* of bytes that are well-formed UTF-16 decode to the text whose big-endian
\* (little-endian) code units those bytes are; when the rest has odd length
\* or an unpaired surrogate, the result is the lossy UTF-8 reading of all
\* the bytes.
C19_MarkedUtf16 ==
    LET bs == cRaw.bytes
        rest == Drop(bs, 2)
        highFirst == bs[1] = 254
    IN  (/\ cPc = "decoded"
         /\ Len(bs) >= 2
         /\ <<bs[1], bs[2]>> \in {BomBE, BomLE}) =>
            IF Len(rest) % 2 = 0 /\ WellFormedUtf16(UnitsOf(rest, highFirst))
            THEN IsUtf16TextOf(cOut, rest, highFirst)
            ELSE cOut = FromUtf8Lossy(bs)

\* FE FF 00 41 has been decoded to "A"
C19_Witness ==
    /\ cPc = "decoded"
    /\ cRaw.bytes = <<254, 255, 0, 65>>
    /\ cOut = <<65>>

(***************************************************************************)
(* Properties of Put and List on documents in memory.                      *)
(***************************************************************************)
\* the document the last call was given, when its input was one
InputDoc == Parse(last.input)

\* the document in the bytes the last call returned
OutputDoc == Parse(last.result.val)

\* List finds no Info dictionary: no Info entry, an entry that is not a
\* reference, a reference to no object, or to an object that is no
\* dictionary
InfoMissing(doc) ==
    \/ doc.info.type # "Reference"
    \/ doc.info.id \notin DOMAIN doc.objects
    \/ doc.objects[doc.info.id].type # "Dictionary"

\* the directory of a file system that holds one file, at the target path
OnlyTarget == [n \in Names |-> IF n = Target THEN 1 ELSE 0]

\* C16: List on a loadable document without an Info dictionary to find
\* (none, not a reference, dangling, or not a dictionary) returns Ok with no
\* entries, from a buffer (get_pdf_metadata) and from a file (get_metadata).
C16_ListWithoutInfoIsEmpty ==
    (last.op = "get" /\ InputDoc.ok /\ InfoMissing(InputDoc.val)) =>
        /\ last.result = Ok(<<>>)
        /\ get_metadata(OnlyTarget, <<last.input>>, Target) = Ok(<<>>)

\* List has been called on a document whose Info reference leads nowhere
C16_Witness ==
    /\ last.op = "get"
    /\ last.input = Serialize(DanglingDoc)
    /\ last.result = Ok(<<>>)

IsPut == last.op \in {"set", "update"}

\* the last call returned a document whose trailer refers to a dictionary
\* object that its input did not have
NewInfoDictionary ==
    /\ last.result.ok
    /\ OutputDoc.ok
    /\ OutputDoc.val.info.type = "Reference"
    /\ OutputDoc.val.info.id \notin DOMAIN InputDoc.val.objects
    /\ ~ InfoMissing(OutputDoc.val)

\* C17: a Put of a key other than ModDate on a document with no Info entry
\* creates a dictionary object and a trailer reference to it, and the List
\* that follows is non-empty and has the written key with the written value.
C17_PutCreatesInfo ==
    (/\ IsPut
     /\ InputDoc.ok
     /\ InputDoc.val.info = Absent
     /\ last.key # ModDateText) =>
        /\ NewInfoDictionary
        /\ get_pdf_metadata(last.result.val).ok
        /\ get_pdf_metadata(last.result.val).val # <<>>
        /\ Lists(get_pdf_metadata(last.result.val).val, last.key, last.value)

\* C18: on every document on which List finds no Info dictionary, Put
\* returns Ok, with a new dictionary object the trailer refers to, which
\* stores the entry.
C18_PutOnMissingInfoSucceeds ==
    (IsPut /\ InputDoc.ok /\ InfoMissing(InputDoc.val)) =>
        /\ NewInfoDictionary
        /\ last.key # ModDateText =>
               Stores(InfoEntries(OutputDoc.val), Utf8Bytes(last.key),
                      string_literal(last.value))

\* C20: on bytes the loader rejects, get_pdf_metadata, set_pdf_metadata and
\* update_pdf_metadata_in_place return an error, and the caller's bytes are
\* what they were.
C20_RejectedBufferIsAnError ==
    (last.op # "none" /\ ~ InputDoc.ok) =>
        /\ ~ last.result.ok
        /\ buf = last.input

\* set_pdf_metadata has been called on bytes that are no document
C20_Witness ==
    /\ last.op = "set"
    /\ last.input = Garbage
    /\ ~ last.result.ok


(***************************************************************************)
(* Properties of the ModDate stamp.                                        *)
(***************************************************************************)
\* the two decimal digits of a number below 100
TwoDigits(n) == <<48 + (n \div 10), 48 + (n % 10)>>

\* C21: for every local offset o with |o| < 86400 the stamp is
\* D:YYYYMMDDHHMMSS, the sign ('+' when o >= 0, '-' otherwise), |o| div 3600
\* as two digits, an apostrophe, (|o| mod 3600) div 60 as two digits and an
\* apostrophe.
C21_StampOfEveryOffset ==
    (date # <<>> /\ clock.offset > -86400 /\ clock.offset < 86400) =>
        LET magnitude == IF clock.offset >= 0 THEN clock.offset
                         ELSE 0 - clock.offset
            HH == magnitude \div 3600
            MM == (magnitude % 3600) \div 60
            sign == IF clock.offset >= 0 THEN 43 ELSE 45
        IN  date = <<68, 58>> \o clock.digits \o <<sign>> \o TwoDigits(HH)
                   \o <<39>> \o TwoDigits(MM) \o <<39>>

\* the stamp made half an hour west of UTC ends in -00'30'
C21_Witness ==
    /\ clock.offset = -1800
    /\ date # <<>>
    /\ Drop(date, 16) = <<45, 48, 48, 39, 51, 48, 39>>


(***************************************************************************)
(* Properties of List on values that are not strings.                      *)
(***************************************************************************)
StructuredKinds == {"Array", "Dictionary", "Stream", "Reference"}

\* what the listing shows for a stored value, by its kind
Renders(object, text) ==
    IF object.type = "Integer" THEN
        text = IF object.val < 0 THEN <<45>> \o DecimalDigits(0 - object.val)
               ELSE DecimalDigits(object.val)
    ELSE IF object.type = "Boolean" THEN
        text = IF object.val THEN <<116, 114, 117, 101>>
               ELSE <<102, 97, 108, 115, 101>>
    ELSE IF object.type = "Null" THEN text = <<110, 117, 108, 108>>
    ELSE IF object.type = "Name" THEN text = FromUtf8Lossy(object.bytes)
    ELSE text # <<>>

\* the listing has one entry for each stored pair, in order
OneEntryPerPair(entries, list) ==
    /\ Len(list) = Len(entries)
    /\ \A i \in 1..Len(entries) :
          /\ list[i].key = FromUtf8Lossy(entries[i].key)
          /\ Renders(entries[i].value, list[i].value)

\* C22: List returns exactly one entry per pair of the Info dictionary,
\* whatever the kind of the value: integers in decimal, booleans as true or
\* false, null as "null", names by lossy UTF-8, and every other kind (array,
\* dictionary, stream, reference) as a placeholder that names the kind, so
\* that values of different kinds have different placeholders.
C22_ListRendersEveryKind ==
    (last.op = "get" /\ InputDoc.ok /\ ~ InfoMissing(InputDoc.val)) =>
        LET entries == InfoEntries(InputDoc.val)
            list == last.result.val
        IN  /\ last.result.ok
            /\ OneEntryPerPair(entries, list)
            /\ \A i, j \in 1..Len(entries) :
                  (/\ entries[i].value.type \in StructuredKinds
                   /\ entries[j].value.type \in StructuredKinds
                   /\ entries[i].value.type # entries[j].value.type) =>
                      list[i].value # list[j].value


(***************************************************************************)
(* Properties of Put on the other entries.                                 *)
(***************************************************************************)
\* every entry of one dictionary whose key is not among the keys given is
\* an entry of the other, with the same stored value
SameOutside(from, to, keys) ==
    \A i \in 1..Len(from) :
        from[i].key \notin keys => Stores(to, from[i].key, from[i].value)

PairwiseDistinctKeys(calls_made) ==
    \A i, j \in 1..Len(calls_made) :
        i # j => calls_made[i].key # calls_made[j].key

\* C23: a Put of (k, v) that returns Ok changes only the Info entries for k
\* and ModDate: every other entry of the input is in the output with the
\* value it had, and the output has no other entry beside; so after Puts
\* with pairwise distinct keys every one of those keys (ModDate, which every
\* Put stamps, aside) is stored with the value its Put wrote.
C23_PutChangesOnlyItsKey ==
    /\ (IsPut /\ last.result.ok) =>
          LET before == InfoEntries(InputDoc.val)
              after == InfoEntries(OutputDoc.val)
              changed == {Utf8Bytes(last.key), ModDateKey}
          IN  /\ SameOutside(before, after, changed)
              /\ SameOutside(after, before, changed)
    /\ (puts # <<>> /\ PairwiseDistinctKeys(puts)) =>
          \A i \in 1..Len(puts) :
              puts[i].key # ModDateText =>
                  Stores(InfoEntries(Parse(buf).val), Utf8Bytes(puts[i].key),
                         string_literal(Utf8Bytes(puts[i].value)))

\* Author then Title have been put on a document that listed nothing, and
\* the bytes the caller holds store both
C23_Witness ==
    /\ Len(puts) >= 2
    /\ puts[1].key = AuthorText
    /\ puts[2].key = TitleText
    /\ IsPut
    /\ InfoEntries(InputDoc.val) # <<>>
    /\ Stores(InfoEntries(Parse(buf).val), Utf8Bytes(AuthorText),
              string_literal(Utf8Bytes(puts[1].value)))
    /\ Stores(InfoEntries(Parse(buf).val), TitleKey,
              string_literal(Utf8Bytes(puts[2].value)))


(***************************************************************************)
(* Properties of set_metadata.                                             *)
(***************************************************************************)
InputFile == FileAt(dir, ino, paths.input)
OutputFile == FileAt(dir, ino, paths.output)

SetActive == pc["u1"] \in {"set_load", "set_create", "set_write", "done"}

\* the call returned the error of Document::load
LoadFailed ==
    /\ Returned("u1")
    /\ ~ res["u1"].ok
    /\ ErrorOf(res["u1"]) \in {"No such file or directory", "parse"}

\* the call returned Ok and the file at output_path is the document that
\* was loaded with the key set to the value and the ModDate stamped
UpdatedAtOutput ==
    ReturnedOk("u1") =>
        /\ OutputFile = [exists |-> TRUE, data |-> Serialize(mem["u1"])]
        /\ Parse(pre["u1"].data).ok
        /\ Put(Parse(pre["u1"].data).val, arg["u1"].key, arg["u1"].value,
               stamp["u1"])
               = Ok(mem["u1"])
        /\ arg["u1"].key # ModDateText =>
               Stores(InfoEntries(Parse(OutputFile.data).val),
                      Utf8Bytes(arg["u1"].key),
                      string_literal(Utf8Bytes(arg["u1"].value)))

\* C24 as stated: during and after a call of set_metadata, successful or
\* not, the file at input_path is what it was when the call began, whatever
\* output_path is; on success the updated document is at output_path; and
\* when the load fails the call returns an error and no file is created at
\* output_path.
C24_InputNeverModified ==
    SetActive =>
        /\ InputFile = pre["u1"]
        /\ UpdatedAtOutput
        /\ LoadFailed => OutputFile = preOut

\* C24 amended: the input is what it was for calls whose output_path is not
\* the input's path; on every call, on success the updated document is at
\* output_path, and a failed load leaves the output path as it was.
C24_DistinctOutputKeepsInput ==
    SetActive =>
        /\ paths.input # paths.output => InputFile = pre["u1"]
        /\ UpdatedAtOutput
        /\ LoadFailed => OutputFile = preOut

\* a call with distinct paths has returned Ok: the output path, where no
\* file was, holds the document built, and the input is what it was
C24_Witness ==
    /\ ReturnedOk("u1")
    /\ paths = [input |-> Target, output |-> OutputPath]
    /\ ~ preOut.exists
    /\ OutputFile = [exists |-> TRUE, data |-> Serialize(mem["u1"])]
    /\ InputFile = pre["u1"]
    /\ InputFile.exists


(***************************************************************************)
(* The decode chain in the order and with the stages that are specified:   *)
(* big-endian mark, little-endian mark, hex wrapper, tag, lossy UTF-8.     *)
(***************************************************************************)
\* stages 1 and 2: the mark, then well-formed UTF-16 in that byte order
ChainMarked(bs, highFirst) ==
    LET rest == Drop(bs, 2)
    IN  IF /\ Len(bs) >= 2
           /\ <<bs[1], bs[2]>> = (IF highFirst THEN BomBE ELSE BomLE)
           /\ Len(rest) % 2 = 0
           /\ WellFormedUtf16(UnitsOf(rest, highFirst))
        THEN FromUtf16(UnitsOf(rest, highFirst))
        ELSE Err("fallthrough")

\* mark detection on bytes, falling back to lossy UTF-8
ChainText(bs) ==
    IF ChainMarked(bs, TRUE).ok THEN ChainMarked(bs, TRUE).val
    ELSE IF ChainMarked(bs, FALSE).ok THEN ChainMarked(bs, FALSE).val
    ELSE FromUtf8Lossy(bs)

\* hex content: an even number of characters, every one a hex digit
StrictHex(content) ==
    /\ Len(content) % 2 = 0
    /\ \A i \in 1..Len(content) : HexDigit(content[i]) >= 0

\* the bytes of strict hex content
StrictHexBytes(content) ==
    [i \in 1..(Len(content) \div 2) |->
        16 * HexDigit(content[2 * i - 1]) + HexDigit(content[2 * i])]

\* stage 3: the text is <...> around strict hex content
ChainHex(bs) ==
    LET text == FromUtf8Lossy(bs)
        content == SubSeq(text, 2, Len(text) - 1)
    IN  IF /\ Len(text) >= 2
           /\ text[1] = 60
           /\ text[Len(text)] = 62
           /\ StrictHex(content)
        THEN Ok(ChainText(StrictHexBytes(content)))
        ELSE Err("fallthrough")

\* stage 4: the tag, then base64 (of no bytes at all, at the least) of
\* UTF-16BE with or without the mark; on any failure the text as it is
ChainTagged(bs) ==
    LET text == FromUtf8Lossy(bs)
        body == Drop(text, 8)
        payload == base64_to_bytes(body).val
        units == UnitsOf(IF HasBomBE(payload) THEN Drop(payload, 2)
                         ELSE payload, TRUE)
    IN  IF ~ StartsWith(text, TagUTF16BE) THEN Err("fallthrough")
        ELSE IF /\ (body = <<>> \/ WellFormedBase64(body))
                /\ Len(payload) % 2 = 0
                /\ WellFormedUtf16(units)
             THEN FromUtf16(units)
        ELSE Ok(text)

SpecifiedChain(bs) ==
    IF ChainMarked(bs, TRUE).ok THEN ChainMarked(bs, TRUE).val
    ELSE IF ChainMarked(bs, FALSE).ok THEN ChainMarked(bs, FALSE).val
    ELSE IF ChainHex(bs).ok THEN ChainHex(bs).val
    ELSE IF ChainTagged(bs).ok THEN ChainTagged(bs).val
    ELSE FromUtf8Lossy(bs)

\* C25: for every raw byte sequence of a stored string the decoder in the
\* code, which tests the tag, then the hex wrapper, then the big-endian
\* mark, then the little-endian mark, then UTF-8, returns the string the
\* specified chain returns in its order: big-endian mark, little-endian
\* mark, hex wrapper, tagged base64, lossy UTF-8.
C25_CodeOrderEqualsSpecifiedChain ==
    (cPc = "decoded" /\ cRaw.type = "String") =>
        cOut = SpecifiedChain(cRaw.bytes)


(***************************************************************************)
(* Properties of the hex-wrapper stage.                                    *)
(***************************************************************************)
\* C26: the hex-wrapper stage commits only when the text between '<' and
\* '>' has even length and consists solely of hex digits; on any other
\* content it falls through and the decoder returns the original text,
\* brackets included.
C26_HexStageCommitsOnStrictHexOnly ==
    LET text == FromUtf8Lossy(cRaw.bytes)
        content == SubSeq(text, 2, Len(text) - 1)
    IN  (/\ cPc = "decoded"
         /\ cRaw.type = "String"
         /\ Len(text) >= 2
         /\ text[1] = 60
         /\ text[Len(text)] = 62
         /\ ~ StrictHex(content))
            => cOut = text


(***************************************************************************)
(* Properties of two invocations with distinct keys.                       *)
(***************************************************************************)
Other(p) == CHOOSE q \in Updaters : q # p

\* the invocation that renamed last
LastRenamer == CHOOSE p \in Updaters : hist[Len(hist)] = arg[p]

\* the entries of the Info dictionary of a file
FileEntries(file) == InfoEntries(Parse(file.data).val)

\* the file that was at the path before either invocation renamed: what
\* the invocation that was called first found
FileBefore ==
    CHOOSE file \in {pre[p] : p \in Updaters} :
        \A q \in Updaters : file.data # Serialize(mem[q])

\* q was called when p had returned
CalledAfter(q, p) == pre[q] = [exists |-> TRUE, data |-> Serialize(mem[p])]

KeyOf(p) == Utf8Bytes(arg[p].key)

\* both invocations have returned Ok and their keys differ
BothOkDistinctKeys ==
    /\ \A p \in Updaters : ReturnedOk(p)
    /\ arg["u1"].key # arg["u2"].key

\* the part of C27 that needs no amendment: the file holds the key of the
\* invocation that renamed last, with its value; it holds the other key
\* with the value written when the last renamer loaded after the other's
\* rename; and it holds both when one was called after the other returned
LastRenamerWins ==
    LET winner == LastRenamer
        loser == Other(LastRenamer)
        final == FileEntries(TargetFile)
    IN  /\ Stores(final, KeyOf(winner), string_literal(arg[winner].value))
        /\ seen[winner] >= 1 =>
               Stores(final, KeyOf(loser), string_literal(arg[loser].value))
        /\ \A p \in Updaters :
               CalledAfter(Other(p), p) =>
                   /\ Stores(final, KeyOf(p), string_literal(arg[p].value))
                   /\ Stores(final, KeyOf(Other(p)),
                             string_literal(arg[Other(p)].value))

Listing == get_metadata(dir, ino, Target)

\* C28: from the moment change_metadata_key has read the value, through
\* the update and the removal and after a failure of either, the file lists
\* the value under the old key or under the new key.
C28_ValueUnderOldOrNewKey ==
    job.op = "change" =>
        /\ Listing.ok
        /\ \/ Lists(Listing.val, job.old, job.value)
           \/ Lists(Listing.val, job.new, job.value)

RemoveReturned ==
    /\ pc["u1"] = "done"
    /\ \/ job.op = "remove"
       \/ job.op = "change" /\ calls = 2

\* C29: remove_metadata_key saves to a temporary file and renames it onto
\* the original: no save of it has the original open; and when it has
\* returned the error of the save or of the rename, no temporary file is
\* left.
C29_RemoveLeavesNoTemp ==
    /\ (pc["u1"] \in {"rm_write"} /\ fd["u1"] # 0) => fd["u1"] # dir[Target]
    /\ (/\ RemoveReturned
        /\ ErrorOf(res["u1"]) \in {"Error saving to temporary file",
                                    "Error renaming temporary file"})
           => \A n \in Names : n # Target => dir[n] = 0


(***************************************************************************)
(* Properties of list_metadata.                                            *)
(***************************************************************************)
\* C30: list_metadata does not fail on a value it has read: a value of
\* more than 60 bytes is printed as its first 57 bytes and "...", a shorter
\* one as it is, values with characters of several bytes included.
C30_DisplayNeverFails ==
    shown.done =>
        /\ shown.out # Panicked
        /\ IF Len(Utf8Bytes(entry)) > 60
           THEN Utf8Bytes(shown.out)
                    = SubSeq(Utf8Bytes(entry), 1, 57) \o <<46, 46, 46>>
           ELSE shown.out = entry

====
